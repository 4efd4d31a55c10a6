----------------------------- MODULE TokenCache -----------------------------
(***************************************************************************)
(* The two token files of dothttp/auth/azure_auth.py: what az printed      *)
(* ("cli", ~/.dothttp.azure-cli.pkl) and the msal cache of service         *)
(* principals and certificates ("sp", ~/.dothttp.msal_token_cache.pkl).    *)
(* All requests of all dothttp processes of a user share them; each is     *)
(* read when needed and rewritten in place, without a lock.                *)
(*                                                                         *)
(* A token is its scope and the time it expires.  Opening a file for       *)
(* writing empties it, the pickle follows in one write, and either may     *)
(* fail; pickle.load refuses a file that is empty or ends too early, which *)
(* is "torn", and ignores what follows the first pickle.                   *)
(***************************************************************************)
EXTENDS Integers, FiniteSets

CONSTANTS
    Requests,    \* requests with azure authentication
    Scopes,      \* the scopes they ask for
    Setups,      \* the ways dothttp is used: how many requests are under
                 \* way at the same time, and a bound on those killed
    Life,        \* the longest life of a new token
    MaxTime,     \* bound: the clock stops there
    NoToken      \* Python's None in the place of a token

Token == [scope : Scopes, expires : Int]

ASSUME TokenCacheAssumption ==
    /\ IsFiniteSet(Requests)
    /\ Setups \subseteq [pool : Nat \ {0}, maxCrashes : Nat]
    /\ Life \in Nat \ {0}
    /\ MaxTime \in Nat
    /\ NoToken \notin Token

Ended == {"done", "failed", "killed"}

VARIABLES
    setup,    \* how dothttp is used, chosen once
    kind,     \* kind[r]: "cli" (device code too) or "sp" (certificates too)
    scope,    \* scope[r]: the scope r asks for
    pc,       \* pc[r]: where the thread of r is
    cache,    \* cache[r]: the tokens of r's msal cache
    token,    \* token[r]: the token r has
    file,     \* file["cli"], file["sp"]
    now,      \* the clock
    crashes   \* requests killed so far

vars == <<setup, kind, scope, pc, cache, token, file, now, crashes>>

input == <<setup, kind, scope>>
outside == <<now, crashes>>

Goto(r, place) == pc' = [pc EXCEPT ![r] = place]

Absent == [state |-> "absent", tokens |-> {}]
Torn == [state |-> "torn", tokens |-> {}]
Holding(T) == [state |-> "ok", tokens |-> T]

\* Wrong variant: whatever token the file holds.
LiveAnyScope(T, s) == {t \in T : t.expires > now}

\* The tokens of T that serve scope s.
Live(T, s) == {t \in T : t.scope = s /\ t.expires > now}

NewTokens(s) == {[scope |-> s, expires |-> now + n] : n \in 1..Life}

Active == {r \in Requests : pc[r] \notin Ended \cup {"queued"}}

-----------------------------------------------------------------------------
Init ==
    /\ setup \in Setups
    /\ kind \in [Requests -> {"cli", "sp"}]
    /\ scope \in [Requests -> Scopes]
    /\ pc = [r \in Requests |-> "queued"]
    /\ cache = [r \in Requests |-> {}]
    /\ token = [r \in Requests |-> NoToken]
    /\ file = [f \in {"cli", "sp"} |-> Absent]
    /\ now = 0
    /\ crashes = 0

\* Wrong variant: a cache that cannot be read counts as none.
LoadTokenCacheLeniently(r) ==
    /\ pc[r] = "queued"
    /\ Cardinality(Active) < setup.pool
    /\ cache' = [cache EXCEPT ![r] = file["sp"].tokens]
    /\ Goto(r, "call")
    /\ UNCHANGED <<input, token, file, outside>>

\* AzureAuth.__init__, for every kind of authentication: only a missing file
\* is as good as an empty cache.
LoadTokenCache(r) ==
    /\ pc[r] = "queued"
    /\ Cardinality(Active) < setup.pool
    /\ \/ /\ file["sp"].state # "torn"
          /\ cache' = [cache EXCEPT ![r] = file["sp"].tokens]
          /\ Goto(r, "call")
       \/ /\ file["sp"].state = "torn"
          /\ Goto(r, "failed")
          /\ UNCHANGED cache
    /\ UNCHANGED <<input, token, file, outside>>

\* acquire_token_from_azure_cli: the stored token of the scope if it lives.
UseStoredToken(r) ==
    /\ pc[r] = "call" /\ kind[r] = "cli"
    /\ \E t \in Live(file["cli"].tokens, scope[r]) : token' = [token EXCEPT ![r] = t]
    /\ Goto(r, "done")
    /\ UNCHANGED <<input, cache, file, outside>>

\* Wrong variant: the store is not looked at.
MissStoredTokenAlways(r) ==
    /\ pc[r] = "call" /\ kind[r] = "cli"
    /\ Goto(r, IF file["cli"].state = "torn" THEN "failed" ELSE "fetch")
    /\ UNCHANGED <<input, cache, token, file, outside>>

\* There is none; a file pickle.load cannot read ends the request.
MissStoredToken(r) ==
    /\ pc[r] = "call" /\ kind[r] = "cli"
    /\ Live(file["cli"].tokens, scope[r]) = {}
    /\ Goto(r, IF file["cli"].state = "torn" THEN "failed" ELSE "fetch")
    /\ UNCHANGED <<input, cache, token, file, outside>>

\* az account get-access-token; it may fail or print something else.
RunAz(r) ==
    /\ pc[r] = "fetch"
    /\ \/ /\ \E t \in NewTokens(scope[r]) : token' = [token EXCEPT ![r] = t]
          /\ Goto(r, "open")
       \/ /\ Goto(r, "failed")
          /\ UNCHANGED token
    /\ UNCHANGED <<input, cache, file, outside>>

\* acquire_token_for_client (get_accounts has none for an application): a
\* live token of the loaded cache, or a new one, which replaces the old ones
\* of its scope.  Nothing is saved if there is no token.
AcquireForClient(r) ==
    LET live == Live(cache[r], scope[r]) IN
    /\ pc[r] = "call" /\ kind[r] = "sp"
    /\ \/ /\ \E t \in live : token' = [token EXCEPT ![r] = t]
          /\ Goto(r, "open")
          /\ UNCHANGED cache
       \/ /\ live = {}
          /\ \E t \in NewTokens(scope[r]) :
                /\ token' = [token EXCEPT ![r] = t]
                /\ cache' = [cache EXCEPT
                        ![r] = {c \in @ : c.scope # scope[r]} \cup {t}]
          /\ Goto(r, "open")
       \/ /\ live = {}
          /\ Goto(r, "failed")
          /\ UNCHANGED <<token, cache>>
    /\ UNCHANGED <<input, file, outside>>

\* Both ways of saving begin with open(..., "wb").
OpenStore(r) ==
    /\ pc[r] = "open"
    /\ file' = [file EXCEPT ![kind[r]] = Torn]
    /\ Goto(r, "write")
    /\ UNCHANGED <<input, cache, token, outside>>

\* Wrong variant: both files get the new token only.
SavedOnlyNew(r) == {token[r]}

\* What a request saves: the whole cache, or a dictionary with nothing but
\* the scope at hand.
Saved(r) == IF kind[r] = "sp" THEN cache[r] ELSE {token[r]}

\* pickle.dump and the end of the with block.
WriteStore(r) ==
    /\ pc[r] = "write"
    /\ file' = [file EXCEPT ![kind[r]] = Holding(Saved(r))]
    /\ Goto(r, "done")
    /\ UNCHANGED <<input, cache, token, outside>>

\* The file cannot be opened, which leaves it alone, or the pickle cannot be
\* written: the file stays as it is by now or has a part of it.  The error
\* ends the request, after its token was fetched.
SaveFails(r) ==
    /\ pc[r] \in {"open", "write"}
    /\ \/ UNCHANGED file
       \/ pc[r] = "write" /\ file' = [file EXCEPT ![kind[r]] = Torn]
    /\ Goto(r, "failed")
    /\ UNCHANGED <<input, cache, token, outside>>

\* The process of r is killed.
Killed(r) ==
    /\ r \in Active
    /\ crashes < setup.maxCrashes
    /\ crashes' = crashes + 1
    /\ Goto(r, "killed")
    /\ UNCHANGED <<input, cache, token, file, now>>

Tick ==
    /\ now < MaxTime
    /\ now' = now + 1
    /\ UNCHANGED <<input, pc, cache, token, file, crashes>>

Next ==
    \/ \E r \in Requests :
          \/ LoadTokenCache(r)
          \/ UseStoredToken(r) \/ MissStoredToken(r) \/ RunAz(r)
          \/ AcquireForClient(r)
          \/ OpenStore(r) \/ WriteStore(r) \/ SaveFails(r)
          \/ Killed(r)
    \/ Tick

Spec == Init /\ [][Next]_vars

-----------------------------------------------------------------------------
FileState == [state : {"absent", "torn", "ok"}, tokens : SUBSET Token]

TypeOK ==
    /\ setup \in Setups
    /\ kind \in [Requests -> {"cli", "sp"}]
    /\ scope \in [Requests -> Scopes]
    /\ pc \in [Requests -> {"queued", "call", "fetch", "open", "write"} \cup Ended]
    /\ cache \in [Requests -> SUBSET Token]
    /\ token \in [Requests -> Token \cup {NoToken}]
    /\ file \in [{"cli", "sp"} -> FileState]
    /\ \A f \in {"cli", "sp"} : file[f].state # "ok" => file[f].tokens = {}
    /\ now \in 0..MaxTime
    /\ crashes \in 0..setup.maxCrashes

\* Whatever other requests write to the files in between, a request takes a
\* token of its own scope that is alive when it takes it
\* (azure_auth.py:111-128, 183-188).
TakesOwnLiveToken ==
    [][\A r \in Requests :
          token'[r] # token[r] =>
              token'[r].scope = scope[r] /\ token'[r].expires > now]_vars

\* A file is unreadable only while a request of its kind saves it, or after
\* one that had its token already was killed, or failed: no order in which
\* requests empty and fill the file tears it (azure_auth.py:148-154, 194-195).
TornOnlyBySaving ==
    \A f \in {"cli", "sp"} :
        file[f].state = "torn" =>
            \E r \in Requests :
                /\ kind[r] = f
                /\ \/ pc[r] = "write"
                   \/ pc[r] \in {"killed", "failed"} /\ token[r] # NoToken

\* Nothing repairs a torn file: once no request of its kind is past the point
\* where it is read, it stays torn and none gets past that point; one save
\* that is killed or fails locks the user out until the file is deleted by
\* hand (azure_auth.py:76-80, 117-123).
PastReading(f) ==
    IF f = "sp" THEN {"call", "fetch", "open", "write"} ELSE {"fetch", "open", "write"}

TornStaysTorn ==
    [][\A f \in {"cli", "sp"} :
          (/\ file[f].state = "torn"
           /\ \A r \in Requests : kind[r] = f => pc[r] \notin PastReading(f)) =>
              /\ file'[f].state = "torn"
              /\ \A r \in Requests :
                    (kind[r] = f /\ pc[r] # "done")
                        => pc'[r] \notin PastReading(f) \cup {"done"}]_vars

-----------------------------------------------------------------------------
\* One request at a time and no crash: the command line.  Saves may fail.
Sequential == setup.pool = 1 /\ setup.maxCrashes = 0

\* Sequentially, a token of a service principal stays in the file for as
\* long as it lives, also when tokens of other scopes are fetched after it.
SpTokensKept ==
    Sequential /\ file["sp"].state = "ok" =>
        \A r \in Requests :
            (pc[r] = "done" /\ kind[r] = "sp" /\ token[r].expires > now)
                => token[r] \in file["sp"].tokens

\* Sequentially, if all az requests ask for one scope, az is run only when
\* no token it printed before is alive.  (With two scopes it is not so: the
\* file holds the last scope only.)
AzRunOncePerLife ==
    [][Sequential /\ (\A p, q \in Requests :
                         kind[p] = "cli" /\ kind[q] = "cli" => scope[p] = scope[q]) =>
          \A r, q \in Requests :
              (/\ pc[r] = "call" /\ pc'[r] = "fetch"
               /\ pc[q] = "done" /\ kind[q] = "cli") => token[q].expires <= now]_vars
=============================================================================
