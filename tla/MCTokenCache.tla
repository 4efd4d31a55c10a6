---------------------------- MODULE MCTokenCache ----------------------------
(* Instances of TokenCache: requests and scopes are interchangeable.        *)
EXTENDS TokenCache, TLC

CONSTANTS r1, r2, r3, s1, s2

\* All at once, one of them killed, or one after the other.
AllSetups == {[pool |-> 3, maxCrashes |-> 1], [pool |-> 1, maxCrashes |-> 0]}

Symmetry == Permutations({r1, r2, r3}) \cup Permutations({s1, s2})
=============================================================================
