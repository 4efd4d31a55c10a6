------------------------- MODULE TokenCache_proofs -------------------------
(***************************************************************************)
(* Theorems about the token files: types, when a file is torn, which token *)
(* a request takes, and that a sequential user keeps the tokens of service *)
(* principals.                                                             *)
(***************************************************************************)
EXTENDS TokenCache, FiniteSetTheorems, TLAPS

USE TokenCacheAssumption DEF TokenCacheAssumption

Places == {"queued", "call", "fetch", "open", "write"} \cup Ended

\* Who saves, or has ended well, has a token.
HasToken == \A r \in Requests : pc[r] \in {"open", "write", "done"} => token[r] \in Token

-----------------------------------------------------------------------------
\* A live token of a set is one of its tokens, and new tokens are tokens of
\* their scope that live.
LEMMA Tokens ==
    ASSUME TypeOK, NEW s \in Scopes
    PROVE /\ \A T : Live(T, s) \subseteq T
          /\ \A t \in NewTokens(s) : t \in Token /\ t.scope = s /\ t.expires > now
  BY DEF Live, NewTokens, Token, TypeOK

\* It begins so.
LEMMA TypeInit == Init => TypeOK /\ HasToken
  <1> SUFFICES ASSUME Init PROVE TypeOK /\ HasToken
    OBVIOUS
  <1>1. \A f \in {"cli", "sp"} : file[f] = [state |-> "absent", tokens |-> {}]
    BY DEF Init, Absent
  <1> QED
    BY <1>1 DEF Init, TypeOK, FileState, HasToken, Ended, Absent

\* Every step keeps the types.
LEMMA TypeStep == TypeOK /\ HasToken /\ [Next]_vars => TypeOK'
<1> SUFFICES ASSUME TypeOK, HasToken, [Next]_vars PROVE TypeOK'
  OBVIOUS
<1> USE DEF TypeOK, FileState, Goto, input, outside, Ended
<1>1. ASSUME NEW r \in Requests, LoadTokenCache(r) PROVE TypeOK'
  <2>1. cache' \in [Requests -> SUBSET Token]
    BY <1>1 DEF LoadTokenCache
  <2>2. pc' \in [Requests -> Places]
    BY <1>1 DEF LoadTokenCache, Places
  <2> QED
    BY <1>1, <2>1, <2>2 DEF LoadTokenCache, Places
<1>2. ASSUME NEW r \in Requests, UseStoredToken(r) PROVE TypeOK'
  <2>1. PICK t \in Live(file["cli"].tokens, scope[r]) : token' = [token EXCEPT ![r] = t]
    BY <1>2 DEF UseStoredToken
  <2>a. file["cli"] \in FileState
    OBVIOUS
  <2>2. t \in Token
    BY <2>1, <2>a DEF Live
  <2> QED
    BY <1>2, <2>1, <2>2 DEF UseStoredToken
<1>3. ASSUME NEW r \in Requests, MissStoredToken(r) PROVE TypeOK'
  BY <1>3 DEF MissStoredToken
<1>4. ASSUME NEW r \in Requests, RunAz(r) PROVE TypeOK'
  <2>1. scope[r] \in Scopes
    OBVIOUS
  <2>2. \A t \in NewTokens(scope[r]) : t \in Token
    BY <2>1, Tokens
  <2>3. token' \in [Requests -> Token \cup {NoToken}]
    BY <1>4, <2>2 DEF RunAz
  <2> QED
    BY <1>4, <2>3 DEF RunAz
<1>5. ASSUME NEW r \in Requests, AcquireForClient(r) PROVE TypeOK'
  <2>1. scope[r] \in Scopes
    OBVIOUS
  <2>2. \A t \in NewTokens(scope[r]) : t \in Token
    BY <2>1, Tokens
  <2>3. Live(cache[r], scope[r]) \subseteq Token
    BY DEF Live
  <2>4. /\ token' \in [Requests -> Token \cup {NoToken}]
        /\ cache' \in [Requests -> SUBSET Token]
    <3>1. CASE \E t \in Live(cache[r], scope[r]) :
                  token' = [token EXCEPT ![r] = t] /\ UNCHANGED cache
      BY <2>3, <3>1
    <3>2. CASE \E t \in NewTokens(scope[r]) :
                  /\ token' = [token EXCEPT ![r] = t]
                  /\ cache' = [cache EXCEPT
                          ![r] = {c \in cache[r] : c.scope # scope[r]} \cup {t}]
      BY <2>2, <3>2
    <3>3. CASE UNCHANGED <<token, cache>>
      BY <3>3
    <3> QED
      BY <1>5, <3>1, <3>2, <3>3 DEF AcquireForClient
  <2>5. pc' \in [Requests -> Places]
    BY <1>5 DEF AcquireForClient, Places
  <2> QED
    BY <1>5, <2>4, <2>5 DEF AcquireForClient, Places
<1>6. ASSUME NEW r \in Requests, OpenStore(r) PROVE TypeOK'
  BY <1>6 DEF OpenStore, Torn
<1>7. ASSUME NEW r \in Requests, WriteStore(r) PROVE TypeOK'
  <2>1. Saved(r) \subseteq Token
    BY <1>7 DEF Saved, WriteStore, HasToken
  <2> QED
    BY <1>7, <2>1 DEF WriteStore, Holding
<1>f. ASSUME NEW r \in Requests, SaveFails(r) PROVE TypeOK'
  BY <1>f DEF SaveFails, Torn
<1>8. ASSUME NEW r \in Requests, Killed(r) PROVE TypeOK'
  BY <1>8 DEF Killed
<1>9. CASE Tick
  BY <1>9 DEF Tick
<1>10. CASE UNCHANGED vars
  BY <1>10 DEF vars
<1> QED
  BY <1>1, <1>2, <1>3, <1>4, <1>5, <1>6, <1>7, <1>f, <1>8, <1>9, <1>10 DEF Next

\* Every step keeps a token with whoever needs one.
LEMMA HasTokenStep == TypeOK /\ HasToken /\ [Next]_vars => HasToken'
<1> SUFFICES ASSUME TypeOK, HasToken, [Next]_vars PROVE HasToken'
  OBVIOUS
<1> USE DEF TypeOK, HasToken, Goto, input, outside, Ended
<1>1. ASSUME NEW r \in Requests, LoadTokenCache(r) PROVE HasToken'
  BY <1>1 DEF LoadTokenCache
<1>2. ASSUME NEW r \in Requests, UseStoredToken(r) PROVE HasToken'
  <2>1. PICK t \in Live(file["cli"].tokens, scope[r]) : token' = [token EXCEPT ![r] = t]
    BY <1>2 DEF UseStoredToken
  <2>a. file["cli"].tokens \subseteq Token
    BY DEF FileState
  <2>2. t \in Token
    BY <2>1, <2>a DEF Live
  <2> QED
    BY <1>2, <2>1, <2>2 DEF UseStoredToken
<1>3. ASSUME NEW r \in Requests, MissStoredToken(r) PROVE HasToken'
  BY <1>3 DEF MissStoredToken
<1>4. ASSUME NEW r \in Requests, RunAz(r) PROVE HasToken'
  <2>1. \A t \in NewTokens(scope[r]) : t \in Token
    BY Tokens
  <2> QED
    BY <1>4, <2>1 DEF RunAz
<1>5. ASSUME NEW r \in Requests, AcquireForClient(r) PROVE HasToken'
  <2>1. \A t \in NewTokens(scope[r]) \cup Live(cache[r], scope[r]) : t \in Token
    BY Tokens DEF Live
  <2>2. \/ \E t \in NewTokens(scope[r]) \cup Live(cache[r], scope[r]) :
              token' = [token EXCEPT ![r] = t] /\ pc' = [pc EXCEPT ![r] = "open"]
        \/ token' = token /\ pc' = [pc EXCEPT ![r] = "failed"]
    BY <1>5 DEF AcquireForClient
  <2> QED
    BY <2>1, <2>2
<1>6. ASSUME NEW r \in Requests, OpenStore(r) PROVE HasToken'
  BY <1>6 DEF OpenStore
<1>7. ASSUME NEW r \in Requests, WriteStore(r) PROVE HasToken'
  BY <1>7 DEF WriteStore
<1>f. ASSUME NEW r \in Requests, SaveFails(r) PROVE HasToken'
  BY <1>f DEF SaveFails
<1>8. ASSUME NEW r \in Requests, Killed(r) PROVE HasToken'
  BY <1>8 DEF Killed
<1>9. CASE Tick
  BY <1>9 DEF Tick
<1>10. CASE UNCHANGED vars
  BY <1>10 DEF vars
<1> QED
  BY <1>1, <1>2, <1>3, <1>4, <1>5, <1>6, <1>7, <1>f, <1>8, <1>9, <1>10 DEF Next

-----------------------------------------------------------------------------
\* Every step keeps the reason for a torn file.
LEMMA TornStep ==
    TypeOK /\ HasToken /\ TornOnlyBySaving /\ [Next]_vars => TornOnlyBySaving'
<1> SUFFICES ASSUME TypeOK, HasToken, TornOnlyBySaving, [Next]_vars,
                    NEW f \in {"cli", "sp"}, file'[f].state = "torn"
             PROVE  \E r \in Requests :
                       /\ kind'[r] = f
                       /\ \/ pc'[r] = "write"
                          \/ pc'[r] \in {"killed", "failed"} /\ token'[r] # NoToken
  BY DEF TornOnlyBySaving
<1> USE DEF TypeOK, FileState, Goto, input, outside, Ended
<1> DEFINE Cause(r) == /\ kind[r] = f
                       /\ \/ pc[r] = "write"
                          \/ pc[r] \in {"killed", "failed"} /\ token[r] # NoToken
<1>1. ASSUME NEW q \in Requests, OpenStore(q), kind[q] = f
      PROVE  Cause(q)'
  BY <1>1 DEF OpenStore
<1>2. ASSUME file'[f] = file[f]
      PROVE  \E r \in Requests : Cause(r)
  BY <1>2 DEF TornOnlyBySaving
<1>3. ASSUME NEW r \in Requests, Cause(r), pc'[r] = pc[r], token'[r] = token[r], kind' = kind
      PROVE  Cause(r)'
  BY <1>3
<1>4. ASSUME NEW q \in Requests, WriteStore(q)
      PROVE  kind[q] # f
  BY <1>4 DEF WriteStore, Holding
<1>5. ASSUME NEW q \in Requests,
             LoadTokenCache(q) \/ UseStoredToken(q) \/ MissStoredToken(q) \/ RunAz(q)
                \/ AcquireForClient(q) \/ OpenStore(q) \/ WriteStore(q)
      PROVE  /\ \A r \in Requests \ {q} : pc'[r] = pc[r] /\ token'[r] = token[r]
             /\ pc[q] \notin Ended /\ kind' = kind
  <2>1. CASE LoadTokenCache(q)
    BY <2>1 DEF LoadTokenCache
  <2>2. CASE UseStoredToken(q)
    BY <2>2 DEF UseStoredToken
  <2>3. CASE MissStoredToken(q)
    BY <2>3 DEF MissStoredToken
  <2>4. CASE RunAz(q)
    BY <2>4 DEF RunAz
  <2>5. CASE AcquireForClient(q)
    <3>1. \A r \in Requests \ {q} : token'[r] = token[r]
      BY <2>5 DEF AcquireForClient
    <3>2. \A r \in Requests \ {q} : pc'[r] = pc[r]
      BY <2>5 DEF AcquireForClient
    <3> QED
      BY <2>5, <3>1, <3>2 DEF AcquireForClient
  <2>6. CASE OpenStore(q) \/ WriteStore(q)
    BY <2>6 DEF OpenStore, WriteStore
  <2> QED
    BY <1>5, <2>1, <2>2, <2>3, <2>4, <2>5, <2>6
<1>6. ASSUME NEW q \in Requests,
             LoadTokenCache(q) \/ UseStoredToken(q) \/ MissStoredToken(q) \/ RunAz(q)
                \/ AcquireForClient(q)
      PROVE  file' = file /\ pc[q] # "write"
  BY <1>6 DEF LoadTokenCache, UseStoredToken, MissStoredToken, RunAz, AcquireForClient
<1>7. ASSUME NEW q \in Requests,
             LoadTokenCache(q) \/ UseStoredToken(q) \/ MissStoredToken(q) \/ RunAz(q)
                \/ AcquireForClient(q)
      PROVE  \E r \in Requests : Cause(r)'
  BY <1>2, <1>3, <1>5, <1>6, <1>7
<1>8. ASSUME NEW q \in Requests, OpenStore(q) PROVE \E r \in Requests : Cause(r)'
  <2>1. CASE kind[q] = f
    BY <1>1, <1>8, <2>1
  <2>2. CASE kind[q] # f
    <3>1. file'[f] = file[f] /\ pc[q] = "open"
      BY <1>8, <2>2 DEF OpenStore
    <3> QED
      BY <1>2, <1>3, <1>5, <1>8, <3>1
  <2> QED
    BY <2>1, <2>2
<1>9. ASSUME NEW q \in Requests, WriteStore(q) PROVE \E r \in Requests : Cause(r)'
  <2>1. file'[f] = file[f] /\ kind[q] # f
    BY <1>4, <1>9 DEF WriteStore
  <2>2. PICK r \in Requests : Cause(r)
    BY <1>2, <2>1
  <2>3. r # q
    BY <2>1, <2>2
  <2>4. pc'[r] = pc[r] /\ token'[r] = token[r] /\ kind' = kind
    BY <1>5, <1>9, <2>3
  <2>5. Cause(r)'
    BY <1>3, <2>2, <2>4
  <2> QED
    BY <2>5
<1>10. ASSUME NEW q \in Requests, Killed(q) PROVE \E r \in Requests : Cause(r)'
  <2>1. PICK r \in Requests : Cause(r)
    BY <1>2, <1>10 DEF Killed
  <2>2. Cause(r)'
    BY <1>10, <2>1 DEF Killed, HasToken, Active
  <2> QED
    BY <2>2
<1>f. ASSUME NEW q \in Requests, SaveFails(q) PROVE \E r \in Requests : Cause(r)'
  <2>1. /\ pc[q] \in {"open", "write"} /\ pc'[q] = "failed" /\ kind' = kind
        /\ token' = token /\ token[q] \in Token
        /\ \A r \in Requests \ {q} : pc'[r] = pc[r]
    BY <1>f DEF SaveFails, HasToken
  <2>2. CASE kind[q] = f
    BY <2>1, <2>2
  <2>3. CASE kind[q] # f
    <3>1. file'[f] = file[f]
      BY <1>f, <2>3 DEF SaveFails
    <3>2. PICK r \in Requests : Cause(r)
      BY <1>2, <3>1
    <3> QED
      BY <1>3, <2>1, <2>3, <3>2
  <2> QED
    BY <2>2, <2>3
<1>11. CASE Tick
  BY <1>2, <1>3, <1>11 DEF Tick
<1>12. CASE UNCHANGED vars
  BY <1>2, <1>3, <1>12 DEF vars
<1> QED
  BY <1>7, <1>8, <1>9, <1>f, <1>10, <1>11, <1>12 DEF Next

-----------------------------------------------------------------------------
\* The inductive invariant of all requests, whatever runs at the same time.
IInv == TypeOK /\ HasToken /\ TornOnlyBySaving

\* The invariant holds in every state.
THEOREM Invariance == Spec => []IInv
<1>1. Init => IInv
  BY TypeInit DEF IInv, TornOnlyBySaving, Init, Absent
<1>2. IInv /\ [Next]_vars => IInv'
  BY TypeStep, HasTokenStep, TornStep DEF IInv
<1> QED
  BY <1>1, <1>2, PTL DEF Spec

\* Type correctness, for any number of requests, scopes and crashes.
THEOREM TypeCorrect == Spec => []TypeOK
  BY Invariance, PTL DEF IInv

\* A token file is torn only while a request saves it, or after one that had
\* its token already was killed or failed; without kills and failed saves the
\* file is readable whenever no request is saving, for any number of requests
\* at once (azure_auth.py:148-154, 194-195).
THEOREM TornExplained == Spec => []TornOnlyBySaving
  BY Invariance, PTL DEF IInv

\* Whoever takes a token takes one of its scope that lives.
LEMMA TakesStep ==
    ASSUME TypeOK, [Next]_vars
    PROVE  \A r \in Requests :
              token'[r] # token[r] =>
                  token'[r].scope = scope[r] /\ token'[r].expires > now
<1> DEFINE Takes == \A r \in Requests :
                       token'[r] # token[r] =>
                           token'[r].scope = scope[r] /\ token'[r].expires > now
<1>1. ASSUME NEW q \in Requests, NEW T, NEW t \in Live(T, scope[q]) \cup NewTokens(scope[q]),
             token' = [token EXCEPT ![q] = t]
      PROVE  Takes
  <2>1. t.scope = scope[q] /\ t.expires > now
    BY <1>1, Tokens DEF Live, TypeOK
  <2> QED
    BY <1>1, <2>1 DEF TypeOK
<1>2. ASSUME token' = token PROVE Takes
  BY <1>2
<1>3. ASSUME NEW q \in Requests, UseStoredToken(q) PROVE Takes
  BY <1>1, <1>3 DEF UseStoredToken
<1>4. ASSUME NEW q \in Requests, RunAz(q) PROVE Takes
  <2>1. CASE \E t \in NewTokens(scope[q]) : token' = [token EXCEPT ![q] = t]
    BY <1>1, <2>1
  <2> QED
    BY <1>2, <1>4, <2>1 DEF RunAz
<1>5. ASSUME NEW q \in Requests, AcquireForClient(q) PROVE Takes
  <2>1. CASE \E t \in Live(cache[q], scope[q]) \cup NewTokens(scope[q]) :
                token' = [token EXCEPT ![q] = t]
    BY <1>1, <2>1
  <2>2. CASE token' = token
    BY <1>2, <2>2
  <2> QED
    BY <1>5, <2>1, <2>2 DEF AcquireForClient
<1>6. ASSUME NEW q \in Requests,
             LoadTokenCache(q) \/ MissStoredToken(q) \/ OpenStore(q) \/ WriteStore(q)
                \/ SaveFails(q) \/ Killed(q)
      PROVE  token' = token
  BY <1>6 DEF LoadTokenCache, MissStoredToken, OpenStore, WriteStore, SaveFails, Killed
<1>7. Tick \/ UNCHANGED vars => token' = token
  BY DEF Tick, vars
<1> QED
  BY <1>2, <1>3, <1>4, <1>5, <1>6, <1>7 DEF Next

\* A request takes a token of its own scope that lives, whatever the others
\* write to the files (azure_auth.py:111-128, 183-188).
THEOREM OwnLiveToken == Spec => TakesOwnLiveToken
<1> DEFINE Takes == \A r \in Requests :
                       token'[r] # token[r] =>
                           token'[r].scope = scope[r] /\ token'[r].expires > now
<1>1. TypeOK /\ [Next]_vars => [Takes]_vars
  BY TakesStep
<1> QED
  BY <1>1, TypeCorrect, PTL DEF Spec, TakesOwnLiveToken

-----------------------------------------------------------------------------
\* f is torn, and no request of its kind is past the point where it is read.
TornForAll(f) ==
    /\ file[f].state = "torn"
    /\ \A r \in Requests : kind[r] = f => pc[r] \notin PastReading(f)

\* f is still torn, and none of its kind has got past that point.
NoneGetsPast(f) ==
    /\ file'[f].state = "torn"
    /\ \A r \in Requests :
          (kind[r] = f /\ pc[r] # "done") => pc'[r] \notin PastReading(f) \cup {"done"}

\* Every step leaves a torn file torn, and stops who would read it.
LEMMA TornForAllStep ==
    ASSUME TypeOK, [Next]_vars, NEW f \in {"cli", "sp"}, TornForAll(f)
    PROVE  NoneGetsPast(f)
<1> USE DEF TypeOK, Goto, input, outside, Ended, PastReading
<1>0. file[f].tokens = {} /\ pc \in [Requests -> Places]
  BY DEF TornForAll, Places
<1>1. ASSUME file'[f] = file[f],
             \A r \in Requests :
                (kind[r] = f /\ pc'[r] # pc[r])
                    => pc'[r] \notin PastReading(f) \cup {"done"}
      PROVE  NoneGetsPast(f)
  BY <1>1 DEF TornForAll, NoneGetsPast
<1>2. ASSUME NEW q \in Requests, LoadTokenCache(q) PROVE NoneGetsPast(f)
  <2>1. \A r \in Requests : pc'[r] # pc[r] => r = q
    BY <1>0, <1>2 DEF LoadTokenCache
  <2>2. kind[q] = f => pc'[q] \notin PastReading(f) \cup {"done"}
    BY <1>0, <1>2 DEF LoadTokenCache, TornForAll
  <2> QED
    BY <1>1, <1>2, <2>1, <2>2 DEF LoadTokenCache
<1>3. ASSUME NEW q \in Requests, UseStoredToken(q) PROVE NoneGetsPast(f)
  <2>1. kind[q] # f
    BY <1>0, <1>3 DEF UseStoredToken, Live
  <2> QED
    BY <1>0, <1>1, <1>3, <2>1 DEF UseStoredToken
<1>4. ASSUME NEW q \in Requests, MissStoredToken(q) PROVE NoneGetsPast(f)
  <2>1. kind[q] = f => pc'[q] = "failed"
    BY <1>0, <1>4 DEF MissStoredToken, TornForAll
  <2>2. \A r \in Requests : pc'[r] # pc[r] => r = q
    BY <1>0, <1>4 DEF MissStoredToken
  <2> QED
    BY <1>1, <1>4, <2>1, <2>2 DEF MissStoredToken
<1>5. ASSUME NEW q \in Requests, RunAz(q) PROVE NoneGetsPast(f)
  <2>1. kind[q] # f
    BY <1>5 DEF RunAz, TornForAll
  <2>2. \A r \in Requests : pc'[r] # pc[r] => r = q
    BY <1>0, <1>5 DEF RunAz
  <2> QED
    BY <1>1, <1>5, <2>1, <2>2 DEF RunAz
<1>6. ASSUME NEW q \in Requests, AcquireForClient(q) PROVE NoneGetsPast(f)
  <2>1. kind[q] # f
    BY <1>6 DEF AcquireForClient, TornForAll
  <2>2. \A r \in Requests : pc'[r] # pc[r] => r = q
    BY <1>0, <1>6 DEF AcquireForClient
  <2>3. file' = file
    BY <1>6 DEF AcquireForClient
  <2> QED
    BY <1>1, <2>1, <2>2, <2>3
<1>7. ASSUME NEW q \in Requests, OpenStore(q) \/ WriteStore(q) \/ SaveFails(q)
      PROVE  NoneGetsPast(f)
  <2>1. kind[q] # f
    BY <1>7 DEF OpenStore, WriteStore, SaveFails, TornForAll
  <2>2. \A r \in Requests : pc'[r] # pc[r] => r = q
    BY <1>0, <1>7 DEF OpenStore, WriteStore, SaveFails
  <2>3. file'[f] = file[f]
    BY <1>7, <2>1 DEF OpenStore, WriteStore, SaveFails
  <2> QED
    BY <1>1, <2>1, <2>2, <2>3
<1>8. ASSUME NEW q \in Requests, Killed(q) PROVE NoneGetsPast(f)
  BY <1>0, <1>1, <1>8 DEF Killed
<1>9. CASE Tick \/ UNCHANGED vars
  BY <1>1, <1>9 DEF Tick, vars
<1> QED
  BY <1>2, <1>3, <1>4, <1>5, <1>6, <1>7, <1>8, <1>9 DEF Next

\* A torn token file that no request is about to write stays torn, and every
\* later request of its kind fails, for any number of requests, at once or
\* after a crash (azure_auth.py:76-80, 117-123).
THEOREM TornFileLocksOut == Spec => TornStaysTorn
<1> DEFINE Locks == \A f \in {"cli", "sp"} :
                       (/\ file[f].state = "torn"
                        /\ \A r \in Requests : kind[r] = f => pc[r] \notin PastReading(f)) =>
                           /\ file'[f].state = "torn"
                           /\ \A r \in Requests :
                                 (kind[r] = f /\ pc[r] # "done")
                                     => pc'[r] \notin PastReading(f) \cup {"done"}
<1>1. TypeOK /\ [Next]_vars => [Locks]_vars
  BY TornForAllStep DEF TornForAll, NoneGetsPast
<1> QED
  BY <1>1, TypeCorrect, PTL DEF Spec, TornStaysTorn

-----------------------------------------------------------------------------
\* If q has ended well and its token lives, T holds it.
KeptIn(q, T) ==
    (pc[q] = "done" /\ kind[q] = "sp" /\ token[q].expires > now) => token[q] \in T

\* With one request at a time: whoever has loaded the cache has the tokens of
\* all before it, and its own before it saves.
AloneInv ==
    Sequential =>
        /\ \A p, q \in Active : p = q
        /\ \A r \in Requests :
              (kind[r] = "sp" /\ pc[r] \in {"call", "open", "write"}) =>
                  \A q \in Requests : KeptIn(q, cache[r])
        /\ \A r \in Requests :
              (kind[r] = "sp" /\ pc[r] \in {"open", "write"}) => token[r] \in cache[r]
        /\ file["sp"].state # "torn" =>
              \A q \in Requests : KeptIn(q, file["sp"].tokens)
        /\ \A r \in Requests : pc[r] = "fetch" => kind[r] = "cli"

\* No request is under way when one starts.
LEMMA Alone ==
    ASSUME Sequential, Cardinality(Active) < setup.pool
    PROVE  Active = {}
<1>1. Active \subseteq Requests
  BY DEF Active
<1>2. IsFiniteSet(Active)
  BY <1>1, FS_Subset
<1>3. Cardinality(Active) \in Nat
  BY <1>2, FS_CardinalityType
<1>4. Cardinality(Active) = 0
  BY <1>3 DEF Sequential
<1> QED
  BY <1>2, <1>4, FS_EmptySet

\* The setup never changes.
LEMMA SetupStays == [Next]_vars => setup' = setup
BY DEF Next, vars, input, LoadTokenCache, UseStoredToken, MissStoredToken, RunAz,
   AcquireForClient, OpenStore, WriteStore, SaveFails, Killed, Tick

\* Every step keeps AloneInv.
LEMMA AloneStep == IInv /\ AloneInv /\ [Next]_vars => AloneInv'
<1> SUFFICES ASSUME TypeOK, HasToken, AloneInv, [Next]_vars, Sequential PROVE AloneInv'
  BY SetupStays DEF IInv, AloneInv, Sequential
<1> USE DEF Goto, input, outside, Ended
<1>0. /\ now \in Int /\ \A t \in Token : t.expires \in Int
      /\ pc \in [Requests -> Places] /\ token \in [Requests -> Token \cup {NoToken}]
      /\ cache \in [Requests -> SUBSET Token] /\ file \in [{"cli", "sp"} -> FileState]
  BY DEF TypeOK, Token, Places
<1>1. ASSUME NEW r \in Requests, LoadTokenCache(r) PROVE AloneInv'
  <2>1. Active = {}
    BY <1>1, Alone DEF LoadTokenCache
  <2>2. Active' \subseteq {r}
    BY <1>0, <1>1, <2>1 DEF LoadTokenCache, Active
  <2>3. \A q \in Requests : \A T : KeptIn(q, T) => KeptIn(q, T)'
    BY <1>0, <1>1 DEF LoadTokenCache, KeptIn
  <2>4. ASSUME pc'[r] = "call" PROVE file["sp"].state # "torn" /\ cache'[r] = file["sp"].tokens
    BY <1>0, <1>1, <2>4 DEF LoadTokenCache
  <2>5. \A q \in Requests :
           pc'[q] \in {"call", "fetch", "open", "write"} => q = r /\ pc'[q] = "call"
    BY <1>0, <1>1, <2>1 DEF LoadTokenCache, Active
  <2>6. file' = file
    BY <1>1 DEF LoadTokenCache
  <2> QED
    BY <2>2, <2>3, <2>4, <2>5, <2>6 DEF AloneInv, KeptIn
<1> DEFINE Others(r) ==
      /\ r \in Active /\ kind' = kind /\ now' = now
      /\ \A q \in Requests \ {r} : pc'[q] = pc[q] /\ token'[q] = token[q] /\ cache'[q] = cache[q]
<1>2. ASSUME NEW r \in Requests, Others(r)
      PROVE  /\ \A p, q \in Active' : p = q
             /\ \A q \in Requests \ {r} : pc'[q] \notin {"call", "fetch", "open", "write"}
             /\ \A q \in Requests \ {r} : \A T : KeptIn(q, T)' = KeptIn(q, T)
             /\ \A q \in Requests : pc[q] # "done" => KeptIn(q, {})
  <2>1. \A q \in Requests \ {r} : q \notin Active
    BY <1>2 DEF AloneInv
  <2>2. \A q \in Requests \ {r} : pc[q] \in Ended \cup {"queued"}
    BY <2>1 DEF Active
  <2>3. Active' \subseteq {r}
    BY <1>2, <2>1 DEF Active
  <2> QED
    BY <1>2, <2>2, <2>3 DEF KeptIn
<1>3. ASSUME NEW r \in Requests, Others(r), file' = file,
             kind[r] = "cli"
      PROVE  AloneInv'
  BY <1>2, <1>3 DEF AloneInv, KeptIn
<1>4. ASSUME NEW r \in Requests, UseStoredToken(r) \/ MissStoredToken(r) \/ RunAz(r) PROVE AloneInv'
  <2>1. Others(r)
    <3>1. CASE UseStoredToken(r)
      BY <1>0, <3>1 DEF UseStoredToken, Active
    <3>2. CASE MissStoredToken(r)
      BY <1>0, <3>2 DEF MissStoredToken, Active
    <3>3. CASE RunAz(r)
      BY <1>0, <3>3 DEF RunAz, Active
    <3> QED
      BY <1>4, <3>1, <3>2, <3>3
  <2>2. file' = file /\ kind[r] = "cli"
    BY <1>4 DEF UseStoredToken, MissStoredToken, RunAz, AloneInv
  <2> QED
    BY <1>3, <2>1, <2>2
<1>5. ASSUME NEW r \in Requests, AcquireForClient(r) PROVE AloneInv'
  <2>1. Others(r)
    <3>1. \A q \in Requests \ {r} : token'[q] = token[q] /\ cache'[q] = cache[q]
      BY <1>0, <1>5 DEF AcquireForClient
    <3>2. \A q \in Requests \ {r} : pc'[q] = pc[q]
      BY <1>0, <1>5 DEF AcquireForClient
    <3> QED
      BY <1>0, <1>5, <3>1, <3>2 DEF AcquireForClient, Active
  <2>2. file' = file /\ pc[r] = "call" /\ kind[r] = "sp" /\ pc'[r] \in {"open", "failed"}
    BY <1>0, <1>5 DEF AcquireForClient
  <2>3. \A q \in Requests : KeptIn(q, cache[r])
    BY <2>2 DEF AloneInv
  <2>4. ASSUME pc'[r] = "open"
        PROVE  token'[r] \in cache'[r] /\ \A q \in Requests \ {r} : KeptIn(q, cache'[r])
    <3>1. CASE \E t \in Live(cache[r], scope[r]) :
                  token' = [token EXCEPT ![r] = t] /\ UNCHANGED cache
      BY <1>0, <2>3, <3>1 DEF Live
    <3>2. ASSUME NEW t \in NewTokens(scope[r]), Live(cache[r], scope[r]) = {},
                 token' = [token EXCEPT ![r] = t],
                 cache' = [cache EXCEPT ![r] = {c \in cache[r] : c.scope # scope[r]} \cup {t}]
          PROVE  token'[r] \in cache'[r] /\ \A q \in Requests \ {r} : KeptIn(q, cache'[r])
      <4>1. token'[r] = t /\ cache'[r] = {c \in cache[r] : c.scope # scope[r]} \cup {t}
        BY <1>0, <3>2
      <4>2. ASSUME NEW c \in cache[r], c.expires > now PROVE c \in cache'[r]
        BY <3>2, <4>1, <4>2 DEF Live
      <4> QED
        BY <2>3, <4>1, <4>2 DEF KeptIn
    <3> QED
      BY <1>0, <1>5, <2>4, <3>1, <3>2 DEF AcquireForClient
  <2>5. \A T : KeptIn(r, T)'
    BY <2>2 DEF KeptIn
  <2> QED
    BY <1>2, <2>1, <2>2, <2>4, <2>5 DEF AloneInv
<1>6. ASSUME NEW r \in Requests, OpenStore(r) PROVE AloneInv'
  <2>1. Others(r) /\ token' = token /\ cache' = cache /\ pc[r] = "open" /\ pc'[r] = "write"
    BY <1>0, <1>6 DEF OpenStore, Active
  <2>2. file'["sp"] = file["sp"] \/ file'["sp"].state = "torn"
    BY <1>0, <1>6 DEF OpenStore, Torn
  <2>3. \A q \in Requests : \A T : KeptIn(q, T)' = KeptIn(q, T)
    BY <1>2, <2>1 DEF KeptIn
  <2> QED
    BY <1>2, <2>1, <2>2, <2>3 DEF AloneInv
<1>7. ASSUME NEW r \in Requests, WriteStore(r) PROVE AloneInv'
  <2>1. Others(r) /\ token' = token /\ cache' = cache /\ pc[r] = "write" /\ pc'[r] = "done"
    BY <1>0, <1>7 DEF WriteStore, Active
  <2>2. CASE kind[r] = "cli"
    <3>1. file'["sp"] = file["sp"]
      BY <1>0, <1>7, <2>2 DEF WriteStore
    <3>2. \A q \in Requests : \A T : KeptIn(q, T) => KeptIn(q, T)'
      BY <1>2, <2>1, <2>2 DEF KeptIn
    <3> QED
      BY <1>2, <2>1, <2>2, <3>1, <3>2 DEF AloneInv
  <2>3. CASE kind[r] = "sp"
    <3>1. file'["sp"].tokens = cache[r]
      BY <1>0, <1>7, <2>3 DEF WriteStore, Holding, Saved
    <3>2. token[r] \in cache[r] /\ \A q \in Requests : KeptIn(q, cache[r])
      BY <2>1, <2>3 DEF AloneInv
    <3>3. \A q \in Requests : KeptIn(q, cache[r])'
      BY <1>2, <2>1, <3>2 DEF KeptIn
    <3> QED
      BY <1>2, <2>1, <3>1, <3>3 DEF AloneInv, KeptIn
  <2> QED
    BY <1>0, <2>2, <2>3 DEF TypeOK
<1>f. ASSUME NEW r \in Requests, SaveFails(r) PROVE AloneInv'
  <2>1. Others(r) /\ token' = token /\ cache' = cache /\ pc[r] # "done" /\ pc'[r] = "failed"
    BY <1>0, <1>f DEF SaveFails, Active
  <2>2. file'["sp"] = file["sp"] \/ file'["sp"].state = "torn"
    BY <1>0, <1>f DEF SaveFails, Torn
  <2>3. \A q \in Requests : \A T : KeptIn(q, T) => KeptIn(q, T)'
    BY <1>2, <2>1 DEF KeptIn
  <2> QED
    BY <1>2, <2>1, <2>2, <2>3 DEF AloneInv
<1>8. ASSUME NEW r \in Requests, Killed(r) PROVE AloneInv'
  BY <1>8 DEF Killed, TypeOK, Sequential
<1>9. CASE Tick
  <2>1. UNCHANGED <<kind, pc, cache, token, file>> /\ now' = now + 1
    BY <1>9 DEF Tick
  <2>2. \A q \in Requests : pc[q] = "done" => token[q] \in Token
    BY DEF HasToken
  <2>3. \A q \in Requests : \A T : KeptIn(q, T) => KeptIn(q, T)'
    BY <1>0, <2>1, <2>2 DEF KeptIn
  <2>4. Active' = Active
    BY <2>1 DEF Active
  <2> QED
    BY <2>1, <2>3, <2>4 DEF AloneInv
<1>10. CASE UNCHANGED vars
  BY <1>10 DEF vars, AloneInv, Active, KeptIn, Sequential
<1> QED
  BY <1>1, <1>4, <1>5, <1>6, <1>7, <1>f, <1>8, <1>9, <1>10 DEF Next

\* With one request at a time and no crash, the msal cache on disk keeps every
\* token of a service principal for as long as it lives, for any number of
\* requests and scopes (azure_auth.py:76-77, 193-195).
THEOREM SpTokensAreKept == Spec => []SpTokensKept
<1>1. Init => AloneInv
  BY DEF Init, AloneInv, Active, KeptIn, Ended
<1>2. IInv /\ AloneInv => SpTokensKept
  BY DEF IInv, TypeOK, FileState, AloneInv, SpTokensKept, KeptIn
<1> QED
  BY <1>1, <1>2, AloneStep, Invariance, PTL DEF Spec
-----------------------------------------------------------------------------
\* All az requests ask for one scope.
OneAz == \A p, q \in Requests : kind[p] = "cli" /\ kind[q] = "cli" => scope[p] = scope[q]

\* az printed a token for q, or q was given one it printed before; it lives.
Lives(q) == pc[q] = "done" /\ kind[q] = "cli" /\ token[q].expires > now

\* Every token is of the scope its request asked for.
OwnScope == \A r \in Requests : token[r] # NoToken => token[r].scope = scope[r]

\* With one az request at a time: while az is run, or what it printed is
\* saved, no earlier token lives; at other times a live one is on disk.
AzInv ==
    Sequential /\ OneAz =>
        /\ \A r \in Requests :
              (kind[r] = "cli" /\ pc[r] \in {"fetch", "open", "write"}) =>
                  \A q \in Requests : ~ Lives(q)
        /\ file["cli"].state # "torn" =>
              \A q \in Requests : Lives(q) => token[q] \in file["cli"].tokens

LEMMA OwnScopeStep == TypeOK /\ OwnScope /\ [Next]_vars => OwnScope'
<1> SUFFICES ASSUME TypeOK, OwnScope, [Next]_vars, NEW r \in Requests, token'[r] # NoToken
             PROVE  token'[r].scope = scope'[r]
  BY DEF OwnScope
<1>1. scope' = scope
  BY DEF Next, vars, input, LoadTokenCache, UseStoredToken, MissStoredToken, RunAz,
     AcquireForClient, OpenStore, WriteStore, SaveFails, Killed, Tick
<1> QED
  BY <1>1, TakesStep DEF OwnScope

\* With one request at a time, a step of r touches no other request, the
\* others are not under way, and the input and the clock stay.
LEMMA OnlyOne ==
    ASSUME TypeOK, AloneInv, Sequential, NEW r \in Requests,
           LoadTokenCache(r) \/ UseStoredToken(r) \/ MissStoredToken(r) \/ RunAz(r)
              \/ AcquireForClient(r) \/ OpenStore(r) \/ WriteStore(r)
    PROVE  /\ kind' = kind /\ scope' = scope /\ setup' = setup /\ now' = now
           /\ \A q \in Requests \ {r} :
                 /\ pc'[q] = pc[q] /\ token'[q] = token[q]
                 /\ pc[q] \in Ended \cup {"queued"}
<1> USE DEF TypeOK, Goto, input, outside, Ended
<1>0. pc \in [Requests -> Places]
  BY DEF Places
<1>1. CASE LoadTokenCache(r)
  <2>1. Active = {}
    BY <1>1, Alone DEF LoadTokenCache
  <2> QED
    BY <1>0, <1>1, <2>1 DEF LoadTokenCache, Active
<1>2. ASSUME r \in Active
      PROVE  \A q \in Requests \ {r} : pc[q] \in Ended \cup {"queued"}
  BY <1>2 DEF AloneInv, Active
<1>3. CASE UseStoredToken(r)
  BY <1>0, <1>2, <1>3 DEF UseStoredToken, Active
<1>4. CASE MissStoredToken(r)
  BY <1>0, <1>2, <1>4 DEF MissStoredToken, Active
<1>5. CASE RunAz(r)
  BY <1>0, <1>2, <1>5 DEF RunAz, Active
<1>6. CASE AcquireForClient(r)
  <2>1. \A q \in Requests \ {r} : token'[q] = token[q]
    BY <1>6 DEF AcquireForClient
  <2>2. \A q \in Requests \ {r} : pc'[q] = pc[q]
    BY <1>0, <1>6 DEF AcquireForClient
  <2> QED
    BY <1>2, <1>6, <2>1, <2>2 DEF AcquireForClient, Active
<1>7. CASE OpenStore(r) \/ WriteStore(r)
  BY <1>0, <1>2, <1>7 DEF OpenStore, WriteStore, Active
<1> QED
  BY <1>1, <1>3, <1>4, <1>5, <1>6, <1>7

\* az is run only when the store holds no live token of the scope, and then
\* none lives.
LEMMA MissMeansNone ==
    ASSUME TypeOK, HasToken, OwnScope, AzInv, Sequential, OneAz,
           NEW r \in Requests, MissStoredToken(r), pc'[r] = "fetch",
           NEW q \in Requests
    PROVE  ~ Lives(q)
<1> SUFFICES ASSUME Lives(q) PROVE FALSE
  OBVIOUS
<1>1. /\ Live(file["cli"].tokens, scope[r]) = {} /\ kind[r] = "cli"
      /\ file["cli"].state # "torn"
  BY DEF MissStoredToken, Goto, TypeOK
<1>2. token[q] \in file["cli"].tokens
  BY <1>1 DEF AzInv
<1>3. token[q].scope = scope[q]
  BY DEF OwnScope, HasToken, Lives
<1>4. scope[q] = scope[r]
  BY <1>1 DEF OneAz, Lives
<1> QED
  BY <1>1, <1>2, <1>3, <1>4 DEF Live, Lives

\* Every step keeps AzInv.
LEMMA AzStep == IInv /\ AloneInv /\ OwnScope /\ AzInv /\ [Next]_vars => AzInv'
<1>s. [Next]_vars => setup' = setup /\ kind' = kind /\ scope' = scope
  BY DEF Next, vars, input, LoadTokenCache, UseStoredToken, MissStoredToken, RunAz,
     AcquireForClient, OpenStore, WriteStore, SaveFails, Killed, Tick
<1> SUFFICES ASSUME TypeOK, HasToken, AloneInv, OwnScope, AzInv, [Next]_vars, Sequential, OneAz
             PROVE  AzInv'
  BY <1>s DEF IInv, AzInv, Sequential, OneAz
<1> USE DEF Goto, input, outside, Ended
<1>0. /\ now \in Int /\ \A t \in Token : t.expires \in Int
      /\ pc \in [Requests -> Places] /\ token \in [Requests -> Token \cup {NoToken}]
      /\ file \in [{"cli", "sp"} -> FileState]
  BY DEF TypeOK, Token, Places
<1> DEFINE Dead == \A q \in Requests : ~ Lives(q)
           OnDisk == file["cli"].state # "torn" =>
                        \A q \in Requests : Lives(q) => token[q] \in file["cli"].tokens
<1>d. /\ \A r \in Requests :
            (kind[r] = "cli" /\ pc[r] \in {"fetch", "open", "write"}) => Dead
      /\ OnDisk
  BY DEF AzInv
<1>1. ASSUME NEW r \in Requests,
             LoadTokenCache(r) \/ UseStoredToken(r) \/ MissStoredToken(r) \/ RunAz(r)
                \/ AcquireForClient(r) \/ OpenStore(r) \/ WriteStore(r)
      PROVE  /\ \A q \in Requests \ {r} : Lives(q)' = Lives(q) /\ token'[q] = token[q]
             /\ \A q \in Requests \ {r} : pc'[q] \notin {"fetch", "open", "write"}
             /\ kind' = kind /\ now' = now
  BY <1>1, OnlyOne DEF Lives
<1>2. ASSUME NEW r \in Requests,
             LoadTokenCache(r) \/ UseStoredToken(r) \/ MissStoredToken(r) \/ RunAz(r)
                \/ AcquireForClient(r) \/ OpenStore(r) \/ WriteStore(r),
             file'["cli"] = file["cli"], ~ Lives(r)',
             (kind[r] = "cli" /\ pc'[r] \in {"fetch", "open", "write"}) => Dead
      PROVE  AzInv'
  BY <1>1, <1>2, <1>d DEF AzInv
<1>3. ASSUME NEW r \in Requests, LoadTokenCache(r) PROVE AzInv'
  <2>1. pc'[r] \in {"call", "failed"} /\ file' = file
    BY <1>0, <1>3 DEF LoadTokenCache
  <2> QED
    BY <1>2, <1>3, <2>1 DEF Lives
<1>4. ASSUME NEW r \in Requests, UseStoredToken(r) PROVE AzInv'
  <2>1. pc'[r] = "done" /\ file' = file
    BY <1>0, <1>4 DEF UseStoredToken
  <2>2. token'[r] \in file["cli"].tokens
    BY <1>0, <1>4 DEF UseStoredToken, Live
  <2>3. \A q \in Requests : pc'[q] \notin {"fetch", "open", "write"}
    BY <1>1, <1>4, <2>1
  <2>4. OnDisk'
    BY <1>1, <1>4, <1>d, <2>1, <2>2
  <2> QED
    BY <2>3, <2>4 DEF AzInv
<1>5. ASSUME NEW r \in Requests, MissStoredToken(r) PROVE AzInv'
  <2>1. pc'[r] \in {"fetch", "failed"} /\ file' = file
    BY <1>0, <1>5 DEF MissStoredToken
  <2>2. pc'[r] = "fetch" => Dead
    BY <1>5, MissMeansNone
  <2> QED
    BY <1>2, <1>5, <2>1, <2>2 DEF Lives
<1>6. ASSUME NEW r \in Requests, RunAz(r) PROVE AzInv'
  <2>1. pc'[r] \in {"open", "failed"} /\ file' = file /\ pc[r] = "fetch"
    BY <1>0, <1>6 DEF RunAz
  <2> QED
    BY <1>2, <1>6, <1>d, <2>1 DEF Lives
<1>7. ASSUME NEW r \in Requests, AcquireForClient(r) PROVE AzInv'
  <2>1. pc'[r] \in {"open", "failed"} /\ file' = file /\ kind[r] = "sp"
    BY <1>0, <1>7 DEF AcquireForClient
  <2> QED
    BY <1>2, <1>7, <2>1 DEF Lives
<1>8. ASSUME NEW r \in Requests, OpenStore(r) PROVE AzInv'
  <2>1. pc'[r] = "write" /\ pc[r] = "open"
    BY <1>0, <1>8 DEF OpenStore
  <2>2. CASE kind[r] = "sp"
    BY <1>0, <1>2, <1>8, <1>d, <2>1, <2>2 DEF OpenStore, Lives
  <2>3. CASE kind[r] = "cli"
    <3>1. file'["cli"].state = "torn"
      BY <1>0, <1>8, <2>3 DEF OpenStore, Torn
    <3>2. Dead'
      BY <1>1, <1>8, <1>d, <2>1, <2>3 DEF Lives
    <3> QED
      BY <3>1, <3>2 DEF AzInv
  <2> QED
    BY <2>2, <2>3 DEF TypeOK
<1>9. ASSUME NEW r \in Requests, WriteStore(r) PROVE AzInv'
  <2>1. pc'[r] = "done" /\ pc[r] = "write" /\ token' = token
    BY <1>0, <1>9 DEF WriteStore
  <2>2. CASE kind[r] = "sp"
    BY <1>0, <1>1, <1>2, <1>9, <1>d, <2>1, <2>2 DEF WriteStore, Lives
  <2>3. CASE kind[r] = "cli"
    <3>1. file'["cli"].tokens = {token[r]}
      BY <1>0, <1>9, <2>3 DEF WriteStore, Holding, Saved
    <3>2. \A q \in Requests : Lives(q)' => q = r
      BY <1>1, <1>9, <1>d, <2>1, <2>3
    <3>3. OnDisk'
      BY <2>1, <3>1, <3>2
    <3>4. \A q \in Requests : pc'[q] \notin {"fetch", "open", "write"}
      BY <1>1, <1>9, <2>1
    <3> QED
      BY <3>3, <3>4 DEF AzInv
  <2> QED
    BY <2>2, <2>3 DEF TypeOK
<1>f. ASSUME NEW r \in Requests, SaveFails(r) PROVE AzInv'
  <2>1. /\ pc'[r] = "failed" /\ kind' = kind /\ now' = now /\ token' = token
        /\ pc[r] \in {"open", "write"}
        /\ \A q \in Requests \ {r} : pc'[q] = pc[q]
    BY <1>0, <1>f DEF SaveFails
  <2>2. \A q \in Requests : Lives(q)' => Lives(q)
    BY <2>1 DEF Lives
  <2>3. file'["cli"] = file["cli"] \/ file'["cli"].state = "torn"
    BY <1>0, <1>f DEF SaveFails, Torn
  <2> QED
    BY <1>d, <2>1, <2>2, <2>3 DEF AzInv
<1>10. ASSUME NEW r \in Requests, Killed(r) PROVE AzInv'
  BY <1>10 DEF Killed, TypeOK, Sequential
<1>11. CASE Tick
  <2>1. UNCHANGED <<kind, pc, token, file>> /\ now' = now + 1
    BY <1>11 DEF Tick
  <2>2. \A q \in Requests : pc[q] = "done" => token[q] \in Token
    BY DEF HasToken
  <2>3. \A q \in Requests : Lives(q)' => Lives(q)
    BY <1>0, <2>1, <2>2 DEF Lives
  <2> QED
    BY <1>d, <2>1, <2>3 DEF AzInv
<1>12. CASE UNCHANGED vars
  BY <1>12, <1>d DEF vars, AzInv, Lives
<1> QED
  BY <1>3, <1>4, <1>5, <1>6, <1>7, <1>8, <1>9, <1>f, <1>10, <1>11, <1>12 DEF Next

\* Only looking in the store in vain leads to running az.
LEMMA FetchAfterMiss ==
    ASSUME TypeOK, [Next]_vars, NEW r \in Requests, pc[r] = "call", pc'[r] = "fetch"
    PROVE  MissStoredToken(r)
<1> USE DEF TypeOK, Goto, Ended
<1>0. pc \in [Requests -> Places]
  BY DEF Places
<1>1. ASSUME NEW q \in Requests, LoadTokenCache(q) PROVE FALSE
  BY <1>0, <1>1 DEF LoadTokenCache
<1>2. ASSUME NEW q \in Requests, UseStoredToken(q) PROVE FALSE
  BY <1>0, <1>2 DEF UseStoredToken
<1>3. ASSUME NEW q \in Requests, MissStoredToken(q) PROVE q = r
  BY <1>0, <1>3 DEF MissStoredToken
<1>4. ASSUME NEW q \in Requests, RunAz(q) PROVE FALSE
  BY <1>0, <1>4 DEF RunAz
<1>5. ASSUME NEW q \in Requests, AcquireForClient(q) PROVE FALSE
  <2>1. pc' = [pc EXCEPT ![q] = "open"] \/ pc' = [pc EXCEPT ![q] = "failed"]
    BY <1>5 DEF AcquireForClient
  <2> QED
    BY <1>0, <2>1
<1>6. ASSUME NEW q \in Requests, OpenStore(q) \/ WriteStore(q) \/ SaveFails(q) \/ Killed(q)
      PROVE  FALSE
  BY <1>0, <1>6 DEF OpenStore, WriteStore, SaveFails, Killed
<1>7. CASE Tick \/ UNCHANGED vars
  BY <1>7 DEF Tick, vars
<1> QED
  BY <1>1, <1>2, <1>3, <1>4, <1>5, <1>6, <1>7 DEF Next

\* With one request at a time, all az requests asking for one scope, az is
\* run only when no token it printed before lives, for any number of
\* requests (azure_auth.py:111-150).
THEOREM AzIsRunOncePerLife == Spec => AzRunOncePerLife
<1> DEFINE Once ==
      Sequential /\ (\A p, q \in Requests :
                        kind[p] = "cli" /\ kind[q] = "cli" => scope[p] = scope[q]) =>
          \A r, q \in Requests :
              (/\ pc[r] = "call" /\ pc'[r] = "fetch"
               /\ pc[q] = "done" /\ kind[q] = "cli") => token[q].expires <= now
<1>1. Init => AloneInv /\ OwnScope /\ AzInv
  BY DEF Init, AloneInv, OwnScope, AzInv, Lives, Active, KeptIn, Ended
<1>2. IInv /\ OwnScope /\ [Next]_vars => OwnScope'
  BY OwnScopeStep DEF IInv
<1>3. IInv /\ AloneInv /\ OwnScope /\ AzInv /\ [Next]_vars => [Once]_vars
  <2> SUFFICES ASSUME IInv, OwnScope, AzInv, [Next]_vars, Sequential, OneAz,
                      NEW r \in Requests, NEW q \in Requests,
                      pc[r] = "call", pc'[r] = "fetch", pc[q] = "done", kind[q] = "cli"
               PROVE  token[q].expires <= now
    BY DEF OneAz
  <2>1. ~ Lives(q)
    BY FetchAfterMiss, MissMeansNone DEF IInv
  <2>2. token[q].expires \in Int /\ now \in Int
    BY DEF IInv, HasToken, TypeOK, Token
  <2> QED
    BY <2>1, <2>2 DEF Lives
<1> QED
  BY <1>1, <1>2, <1>3, AloneStep, AzStep, Invariance, PTL DEF Spec, AzRunOncePerLife
=============================================================================
