-------------------------- MODULE MCCookieSession --------------------------
(* Instances of CookieSession: the ways dothttp is used.                    *)
EXTENDS CookieSession, TLC

CONSTANTS r1, r2, r3, p1, p2

Mode(noCookie, clear, retry) ==
    [noCookie |-> noCookie, clear |-> clear, retry |-> retry]

Usual == Mode(FALSE, FALSE, FALSE)
OneMode ==
    {Usual, Mode(TRUE, FALSE, FALSE), Mode(FALSE, TRUE, FALSE), Mode(FALSE, FALSE, TRUE)}

\* Requests of one process differ in nothing but their modes: of the ways to
\* give modes to two of them it is enough to check one of each pair.
Rank(m) == (IF m.noCookie THEN 4 ELSE 0) + (IF m.clear THEN 2 ELSE 0) + (IF m.retry THEN 1 ELSE 0)
InOrder(Some, q, r) == {m \in Some : Rank(m[q]) <= Rank(m[r])}

OneProcess == [r \in Requests |-> p1]
TwoProcesses == [r \in Requests |-> IF r = r1 THEN p1 ELSE p2]

\* Two requests of one process at the same time, in every mode.
Threads ==
    [requests |-> {r1, r2},
     modes |-> InOrder({m \in [Requests -> AllModes] : m[r3] = Usual}, r1, r2),
     home |-> OneProcess, pool |-> 2, diskFails |-> FALSE, maxCrashes |-> 0]

\* The same with a process that is killed, or with a full disk.
Killed == [Threads EXCEPT !.maxCrashes = 1]
FullDisk == [Threads EXCEPT !.diskFails = TRUE]

\* Both, with one request after the other.
KilledOnFullDisk == [Killed EXCEPT !.pool = 1, !.diskFails = TRUE]

\* Two processes share the jar file, each handles one request at a time,
\* with cookies or without.
TwoServers ==
    [requests |-> Requests,
     modes |-> InOrder([Requests -> {Usual, Mode(TRUE, FALSE, FALSE)}], r2, r3),
     home |-> TwoProcesses, pool |-> 1, diskFails |-> FALSE, maxCrashes |-> 0]

\* One request after the other, each in one of the modes at most.
Alternating ==
    [requests |-> Requests, modes |-> InOrder(InOrder([Requests -> OneMode], r1, r2), r2, r3),
     home |-> OneProcess, pool |-> 1, diskFails |-> FALSE, maxCrashes |-> 0]

AllSetups ==
    [killed |-> Killed, fullDisk |-> FullDisk, killedOnFullDisk |-> KilledOnFullDisk,
     twoServers |-> TwoServers, alternating |-> Alternating]
OnlyThreads == [threads |-> Threads]
=============================================================================
