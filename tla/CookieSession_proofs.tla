------------------------ MODULE CookieSession_proofs ------------------------
(***************************************************************************)
(* Proofs about CookieSession for any requests and processes, any number   *)
(* of pool threads, any number of crashes, with disks that fail or not.    *)
(***************************************************************************)
EXTENDS CookieSession, FiniteSetTheorems, TLAPS

USE CookieSessionAssumption DEF CookieSessionAssumption, Used, Home

\* Jars are told apart by how they were made and by whom.
LEMMA Jars ==
    /\ NoJar \notin JarIds
    /\ FileJars \subseteq JarIds
    /\ \A r \in Requests : /\ LwpJar(r) \in FileJars
                           /\ TmpJar(r) \in JarIds
                           /\ TmpJar(r) \notin FileJars
    /\ \A q, r \in Requests : TmpJar(q) = TmpJar(r) => q = r
BY DEF JarIds, FileJars, LwpJar, TmpJar

\* The setup is of its type, so every request has a process.
LEMMA Homes ==
    ASSUME setup \in DOMAIN Setups
    PROVE  /\ \A r \in Requests : Home(r) \in Processes
           /\ Used.modes \subseteq [Requests -> AllModes]
           /\ Used.maxCrashes \in Nat
<1>1. Used \in SetupType
  OBVIOUS
<1> QED
  BY <1>1 DEF SetupType

-----------------------------------------------------------------------------
Before == {"queued", "look", "reuse", "open", "create", "publish"}
After == {"assign", "send", "check", "save", "write"}

Running(r) == pc[r] \notin Ended \cup {"queued"}

\* Which jar a request has at which place; a request with @clear or without
\* cookies never looks for a jar and never saves one.
JarAt(r) ==
    /\ mine[r] \in FileJars \cup {NoJar, TmpJar(r)}
    /\ pc[r] \in Before => mine[r] # TmpJar(r)
    /\ pc[r] \in After => mine[r] # NoJar
    /\ mode[r].clear => /\ mine[r] \in {NoJar, TmpJar(r)}
                        /\ pc[r] \in {"queued", "prepare", "assign", "send", "check"} \cup Ended
    /\ mode[r].noCookie => /\ mine[r] \in {NoJar, TmpJar(r)}
                           /\ pc[r] \in {"queued", "publish", "prepare", "assign", "send",
                                         "check"} \cup Ended
                           /\ skip[r]
    /\ pc[r] = "write" => writing[r].jar \in FileJars
    /\ pc[r] \in {"look", "reuse", "open", "create", "save", "write"} => ~skip[r]
    /\ pc[r] = "queued" \/ (pc[r] = "publish" /\ skip[r]) => mine[r] = NoJar

JarInv == \A r \in Requests : JarAt(r)

\* The session has a jar while a request that shares it is under way, and it
\* never is the jar of a request with @clear.
SessionInv ==
    /\ \A r \in Requests :
          (pc[r] \in After \ {"assign"} /\ ~mode[r].clear) => session[Home(r)] # NoJar
    /\ \A p \in Processes : \A r \in Requests : mode[r].clear => session[p] # TmpJar(r)

\* With a pool of one thread, a process is busy with one request at most, and
\* its session has the jar of that request.
OneInv ==
    Used.pool = 1 =>
        \A r \in Requests :
            /\ \A q \in Requests : Running(q) /\ Running(r) /\ Home(q) = Home(r) => q = r
            /\ (pc[r] \in After \ {"assign"} /\ ~mode[r].clear) => session[Home(r)] = mine[r]

\* The requests that should have cookies of their own.
Apart(r) == mode[r].clear \/ (mode[r].noCookie /\ Used.pool = 1)

\* Exactly the cookies of r are in r's own jar and among the cookies r has
\* sent; none of them is in the file.
Alone(r) ==
    /\ \A j \in JarIds : \A c \in content[j] : c.owner = r <=> j = TmpJar(r)
    /\ \A c \in file.cookies : c.owner # r
    /\ \A q \in Requests : \A c \in sent[q] : c.owner = r <=> q = r

AloneInv == \A r \in Requests : Apart(r) => Alone(r)

\* Only a disk that may fail fails.
SpoiltInv == spoilt => Used.diskFails

IInv == TypeOK /\ JarInv /\ SessionInv /\ OneInv /\ AloneInv /\ SpoiltInv

-----------------------------------------------------------------------------
\* The invariant holds initially.
LEMMA InvInit == Init => IInv
<1> SUFFICES ASSUME Init PROVE IInv
  OBVIOUS
<1>1. TypeOK
  <2>1. mode \in [Requests -> AllModes] /\ 0 \in 0..Used.maxCrashes
    BY Homes DEF Init
  <2>2. skip \in [Requests -> BOOLEAN]
    BY <2>1 DEF Init, AllModes
  <2> QED
    BY <2>1, <2>2 DEF Init, TypeOK, FileState, Places
<1>2. JarInv
  BY Jars DEF Init, JarInv, JarAt, Before, After
<1>3. SessionInv
  BY Jars DEF Init, SessionInv, After
<1>4. AloneInv
  BY DEF Init, AloneInv, Alone
<1>5. OneInv
  BY DEF Init, OneInv, Running, After
<1> QED
  BY <1>1, <1>2, <1>3, <1>4, <1>5 DEF Init, IInv, SpoiltInv

-----------------------------------------------------------------------------
\* Nothing changes what was asked for.
LEMMA AskedStays == [Next]_vars => setup' = setup /\ mode' = mode
BY DEF Next, GetCookie, GetResponse, Start, LookForJar, ReuseJar, LoadJar, CreateFile,
   FillFile, FillFileFails, PublishJar, PrepareCookies, AssignCookies, FollowRedirect, ReceiveAnswer,
   SendFails, CheckSave, OpenForSave, WriteJar, WriteJarFails, Crash, perRequest, vars

\* Moving one request to another place.
LEMMA GotoPlace ==
    ASSUME pc \in [Requests -> Places], NEW r \in Requests, NEW place \in Places, Goto(r, place)
    PROVE  /\ pc' \in [Requests -> Places]
           /\ \A q \in Requests : pc'[q] = IF q = r THEN place ELSE pc[q]
BY DEF Goto

\* The jar of the session r uses while r is between assign and save.
LEMMA SessionJarType ==
    ASSUME IInv, NEW r \in Requests, pc[r] \in After \ {"assign"}
    PROVE  /\ SessionJar(r) \in JarIds
           /\ mode[r].clear => SessionJar(r) = TmpJar(r)
           /\ \A q \in Requests : Apart(q) => (SessionJar(r) = TmpJar(q) <=> q = r)
<1>t. JarAt(r) /\ Home(r) \in Processes /\ session[Home(r)] \in JarIds \cup {NoJar}
  BY Homes DEF IInv, TypeOK, JarInv
<1>1. CASE mode[r].clear
  BY <1>1, <1>t, Jars DEF JarAt, SessionJar, After
<1>2. CASE ~mode[r].clear
  <2>1. SessionJar(r) = session[Home(r)] /\ session[Home(r)] # NoJar
    BY <1>2 DEF IInv, SessionInv, SessionJar
  <2>2. ASSUME NEW q \in Requests, Apart(q)
        PROVE  SessionJar(r) = TmpJar(q) <=> q = r
    <3>1. CASE Used.pool = 1
      <4>1. session[Home(r)] = mine[r]
        BY <1>2, <3>1 DEF IInv, OneInv
      <4>2. q = r => mine[r] \in {NoJar, TmpJar(r)}
        BY <1>t, <1>2, <2>2 DEF Apart, JarAt
      <4> QED
        BY <1>t, <2>1, <4>1, <4>2, Jars DEF JarAt
    <3>2. CASE Used.pool # 1
      BY <1>t, <1>2, <2>1, <2>2, <3>2 DEF Apart, IInv, SessionInv
    <3> QED
      BY <3>1, <3>2
  <2> QED
    BY <1>t, <1>2, <2>1, <2>2
<1> QED
  BY <1>1, <1>2

\* Every step keeps the types.
LEMMA TypeStep == IInv /\ [Next]_vars => TypeOK'
<1> SUFFICES ASSUME IInv, [Next]_vars PROVE TypeOK'
  OBVIOUS
<1>t. TypeOK
  BY DEF IInv
<1> USE DEF perRequest, shared
<1>h. \A r \in Requests : Home(r) \in Processes
  BY <1>t, Homes DEF TypeOK
<1>1. ASSUME NEW r \in Requests, Start(r) PROVE TypeOK'
  BY <1>1, <1>t DEF Start, TypeOK, Goto, Places
<1>2. ASSUME NEW r \in Requests, LookForJar(r) PROVE TypeOK'
  BY <1>2, <1>t DEF LookForJar, TypeOK, Goto, Places
<1>3. ASSUME NEW r \in Requests, ReuseJar(r) PROVE TypeOK'
  <2>1. globalJar[Home(r)] \in JarIds \cup {NoJar}
    BY <1>t, <1>h, Jars DEF TypeOK
  <2> QED
    BY <1>3, <1>t, <2>1 DEF ReuseJar, TypeOK, Goto, Places
<1>4. ASSUME NEW r \in Requests, LoadJar(r) PROVE TypeOK'
  <2>1. LwpJar(r) \in JarIds /\ file.cookies \in SUBSET Cookies
    BY <1>t, Jars DEF TypeOK, FileState
  <2>2. /\ pc' \in [Requests -> Places]
        /\ mine' \in [Requests -> JarIds \cup {NoJar}]
        /\ skip' \in [Requests -> BOOLEAN]
    <3>1. CASE mine' = [mine EXCEPT ![r] = LwpJar(r)] /\ skip' = skip
      BY <1>4, <1>t, <2>1, <3>1 DEF LoadJar, TypeOK, Goto, Places, WithoutCookies
    <3>2. CASE WithoutCookies(r)
      BY <1>t, <3>2 DEF TypeOK, Goto, Places, WithoutCookies
    <3> QED
      BY <1>4, <3>1, <3>2 DEF LoadJar
  <2>3. content' \in [JarIds -> SUBSET Cookies]
    BY <1>4, <1>t, <2>1 DEF LoadJar, TypeOK
  <2> QED
    BY <1>4, <1>t, <2>2, <2>3 DEF LoadJar, TypeOK
<1>5. ASSUME NEW r \in Requests, CreateFile(r) PROVE TypeOK'
  <2>1. LwpJar(r) \in JarIds /\ [state |-> "torn", cookies |-> {}] \in FileState
    BY <1>t, Jars DEF TypeOK, FileState
  <2>2. /\ pc' \in [Requests -> Places]
        /\ mine' \in [Requests -> JarIds \cup {NoJar}]
        /\ skip' \in [Requests -> BOOLEAN]
    <3>1. CASE mine' = [mine EXCEPT ![r] = LwpJar(r)] /\ skip' = skip
      BY <1>5, <1>t, <2>1, <3>1 DEF CreateFile, TypeOK, Goto, Places, WithoutCookies
    <3>2. CASE WithoutCookies(r)
      BY <1>t, <3>2 DEF TypeOK, Goto, Places, WithoutCookies
    <3> QED
      BY <1>5, <3>1, <3>2 DEF CreateFile
  <2>3. file' \in FileState
    BY <1>5, <1>t, <2>1 DEF CreateFile, TypeOK
  <2> QED
    BY <1>5, <1>t, <2>2, <2>3 DEF CreateFile, TypeOK
<1>6. ASSUME NEW C \in SUBSET Cookies, Overwrite(C) PROVE file' \in FileState
  BY <1>6, <1>t DEF Overwrite, TypeOK, FileState, Kept
<1>7. ASSUME NEW r \in Requests, FillFile(r) PROVE TypeOK'
  BY <1>6, <1>7, <1>t DEF FillFile, TypeOK, Goto, Places
<1>s. ASSUME NEW C \in SUBSET Cookies, Spoil(C) PROVE file' \in FileState /\ spoilt' \in BOOLEAN
  <2>1. [state |-> "torn", cookies |-> {}] \in FileState
    BY DEF FileState
  <2>2. ASSUME NEW K \in SUBSET C, Overwrite(K) PROVE file' \in FileState
    BY <1>6, <2>2
  <2> QED
    BY <1>s, <2>1, <2>2 DEF Spoil
<1>f. ASSUME NEW r \in Requests, FillFileFails(r) PROVE TypeOK'
  <2>1. file' \in FileState /\ spoilt' \in BOOLEAN
    BY <1>s, <1>f DEF FillFileFails
  <2>2. /\ pc' \in [Requests -> Places]
        /\ mine' \in [Requests -> JarIds \cup {NoJar}]
        /\ skip' \in [Requests -> BOOLEAN]
    BY <1>f, <1>t DEF FillFileFails, WithoutCookies, TypeOK, Goto, Places
  <2> QED
    BY <1>f, <1>t, <2>1, <2>2 DEF FillFileFails, TypeOK
<1>8. ASSUME NEW r \in Requests, PublishJar(r) PROVE TypeOK'
  <2>1. mine[r] \in FileJars \cup {NoJar}
    BY <1>8 DEF PublishJar, IInv, JarInv, JarAt, Before
  <2> QED
    BY <1>8, <1>t, <1>h, <2>1 DEF PublishJar, TypeOK, Goto, Places
<1>9. ASSUME NEW r \in Requests, PrepareCookies(r) PROVE TypeOK'
  <2> DEFINE jar == IF mine[r] = NoJar THEN TmpJar(r) ELSE mine[r]
  <2>1. jar \in JarIds /\ content[jar] \in SUBSET Cookies
    BY <1>t, Jars DEF TypeOK
  <2> QED
    BY <1>9, <1>t, <2>1 DEF PrepareCookies, TypeOK, Goto, Places
<1>10. ASSUME NEW r \in Requests, AssignCookies(r) PROVE TypeOK'
  BY <1>10, <1>t, <1>h DEF AssignCookies, TypeOK, Goto, Places
<1>11. ASSUME NEW r \in Requests, NEW C \in Answers(r), Receive(r, C),
              pc[r] = "send"
       PROVE  /\ C \in SUBSET Cookies
              /\ got' \in [Requests -> SUBSET Cookies]
              /\ content' \in [JarIds -> SUBSET Cookies]
  <2>1. C \in SUBSET Cookies
    BY <1>11 DEF Answers, Cookies
  <2> QED
    BY <1>11, <1>t, <2>1 DEF Receive, TypeOK
<1>12. ASSUME NEW r \in Requests, FollowRedirect(r) PROVE TypeOK'
  <2>1. PICK C \in Answers(r) \ {{}} :
           /\ Receive(r, C)
           /\ sent' = [sent EXCEPT ![r] =
                          @ \cup content[mine[r]] \cup content[SessionJar(r)] \cup C]
    BY <1>12 DEF FollowRedirect
  <2>2. mine[r] \in JarIds /\ SessionJar(r) \in JarIds
    BY <1>12, <1>t, SessionJarType DEF FollowRedirect, IInv, JarInv, JarAt, After, TypeOK
  <2>3. content[mine[r]] \in SUBSET Cookies /\ content[SessionJar(r)] \in SUBSET Cookies
    BY <1>t, <2>2 DEF TypeOK
  <2>4. pc[r] = "send"
    BY <1>12 DEF FollowRedirect
  <2>5. sent' \in [Requests -> SUBSET Cookies]
    BY <1>t, <1>11, <2>1, <2>3, <2>4 DEF TypeOK
  <2> QED
    BY <1>12, <1>t, <1>11, <2>1, <2>4, <2>5 DEF FollowRedirect, TypeOK
<1>13. ASSUME NEW r \in Requests, ReceiveAnswer(r) PROVE TypeOK'
  <2>1. PICK C \in Answers(r) : Receive(r, C)
    BY <1>13 DEF ReceiveAnswer
  <2> QED
    BY <1>11, <1>13, <1>t, <2>1 DEF ReceiveAnswer, TypeOK, Goto, Places
<1>14. ASSUME NEW r \in Requests, SendFails(r) PROVE TypeOK'
  BY <1>14, <1>t DEF SendFails, TypeOK, Goto, Places, Ended
<1>15. ASSUME NEW r \in Requests PROVE Outcome(r) \in Places
  BY DEF Outcome, Places, Ended
<1>16. ASSUME NEW r \in Requests, CheckSave(r) PROVE TypeOK'
  BY <1>15, <1>16, <1>t DEF CheckSave, TypeOK, Goto, Places
<1>17. ASSUME NEW r \in Requests, OpenForSave(r) PROVE TypeOK'
  <2>1. [state |-> "torn", cookies |-> {}] \in FileState
    BY DEF FileState
  <2>2. SessionJar(r) \in FileJars =>
           [jar |-> SessionJar(r), seen |-> content[SessionJar(r)]] \in
              [jar : FileJars \cup {NoJar}, seen : SUBSET Cookies]
    BY <1>t, Jars DEF TypeOK
  <2>3. pc' \in [Requests -> Places]
    BY <1>15, <1>17, <1>t DEF OpenForSave, TypeOK, Goto, Places
  <2>4. file' \in FileState
    BY <1>17, <1>t, <2>1 DEF OpenForSave, TypeOK
  <2>5. writing' \in [Requests -> [jar : FileJars \cup {NoJar}, seen : SUBSET Cookies]]
    BY <1>17, <1>t, <2>2 DEF OpenForSave, TypeOK
  <2> QED
    BY <1>17, <1>t, <2>3, <2>4, <2>5 DEF OpenForSave, TypeOK
<1>18. ASSUME NEW r \in Requests, WriteJar(r) PROVE TypeOK'
  <2>1. writing[r].jar \in FileJars
    BY <1>18 DEF WriteJar, IInv, JarInv, JarAt
  <2>2. content[writing[r].jar] \in SUBSET Cookies
    BY <1>t, <2>1, Jars DEF TypeOK
  <2>3. file' \in FileState
    BY <1>6, <1>18, <2>2 DEF WriteJar
  <2> QED
    BY <1>15, <1>18, <1>t, <2>3 DEF WriteJar, TypeOK, Goto
<1>w. ASSUME NEW r \in Requests, WriteJarFails(r) PROVE TypeOK'
  <2>1. writing[r].jar \in FileJars
    BY <1>w DEF WriteJarFails, IInv, JarInv, JarAt
  <2>2. content[writing[r].jar] \in SUBSET Cookies
    BY <1>t, <2>1, Jars DEF TypeOK
  <2>3. file' \in FileState /\ spoilt' \in BOOLEAN
    BY <1>s, <1>w, <2>2 DEF WriteJarFails
  <2> QED
    BY <1>15, <1>w, <1>t, <2>3 DEF WriteJarFails, TypeOK, Goto
<1>19. ASSUME NEW p \in Processes, Crash(p) PROVE TypeOK'
  <2>1. Used' = Used /\ Used.maxCrashes \in Nat
    BY <1>19, <1>t, Homes DEF Crash, TypeOK
  <2>2. crashes' \in 0..Used.maxCrashes
    BY <1>19, <1>t, <2>1 DEF Crash, TypeOK
  <2> QED
    BY <1>19, <1>t, <2>2 DEF Crash, TypeOK, Places, Ended
<1>20. CASE UNCHANGED vars
  BY <1>20, <1>t DEF vars, TypeOK
<1> QED
  BY <1>1, <1>2, <1>3, <1>4, <1>5, <1>7, <1>f, <1>8, <1>9, <1>10, <1>12, <1>13, <1>14,
     <1>16, <1>17, <1>18, <1>w, <1>19, <1>20 DEF Next, GetCookie, GetResponse

-----------------------------------------------------------------------------
\* A step of r leaves the jars of the other requests where they are.
LEMMA JarOfOne ==
    ASSUME IInv, NEW r \in Requests, mode' = mode, JarAt(r)',
           \A q \in Requests \ {r} :
              pc'[q] = pc[q] /\ mine'[q] = mine[q] /\ writing'[q] = writing[q] /\ skip'[q] = skip[q]
    PROVE  JarInv'
<1>1. ASSUME NEW q \in Requests \ {r} PROVE JarAt(q)'
  BY <1>1 DEF IInv, JarInv, JarAt
<1> QED
  BY <1>1 DEF JarInv

\* Every step keeps the jars where they belong.
LEMMA JarStep == IInv /\ [Next]_vars => JarInv'
<1> SUFFICES ASSUME IInv, [Next]_vars PROVE JarInv'
  OBVIOUS
<1>t. /\ pc \in [Requests -> Places]
      /\ mine \in [Requests -> JarIds \cup {NoJar}]
      /\ globalJar \in [Processes -> FileJars \cup {NoJar}]
      /\ DOMAIN writing = Requests /\ DOMAIN skip = Requests
      /\ \A r \in Requests : JarAt(r) /\ Home(r) \in Processes
  BY Homes DEF IInv, TypeOK, JarInv
<1> USE DEF perRequest, shared, Goto
<1>1. ASSUME NEW r \in Requests, Start(r) PROVE JarInv'
  BY <1>1, <1>t, JarOfOne DEF Start, JarAt, Before, After
<1>2. ASSUME NEW r \in Requests, LookForJar(r) PROVE JarInv'
  BY <1>2, <1>t, JarOfOne DEF LookForJar, JarAt, Before, After, Ended
<1>3. ASSUME NEW r \in Requests, ReuseJar(r) PROVE JarInv'
  BY <1>3, <1>t, JarOfOne DEF ReuseJar, JarAt, Before, After, Ended
<1>4. ASSUME NEW r \in Requests,
             NEW place \in {"create", "publish"}, Goto(r, place),
             \/ mine' = [mine EXCEPT ![r] = LwpJar(r)] /\ skip' = skip
             \/ mine' = [mine EXCEPT ![r] = NoJar] /\ place = "publish",
             pc[r] = "open", mode' = mode, writing' = writing,
             \A q \in Requests \ {r} : skip'[q] = skip[q]
      PROVE  JarInv'
  <2>1. /\ mine'[r] \in FileJars \cup {NoJar} /\ pc'[r] \in {"create", "publish"}
        /\ ~skip[r]
        /\ skip'[r] = skip[r] \/ (mine'[r] = NoJar /\ pc'[r] = "publish")
    BY <1>4, <1>t, Jars DEF JarAt
  <2>2. ~mode[r].clear /\ ~mode[r].noCookie
    BY <1>4, <1>t DEF JarAt, Ended
  <2>3. JarAt(r)'
    BY <1>4, <2>1, <2>2, Jars DEF JarAt, Before, After
  <2> QED
    BY <1>4, <1>t, <2>3, JarOfOne
<1>5. ASSUME NEW r \in Requests, LoadJar(r) \/ CreateFile(r) PROVE JarInv'
  <2>1. \A q \in Requests \ {r} : skip'[q] = skip[q]
    BY <1>5, <1>t DEF LoadJar, CreateFile, WithoutCookies
  <2> QED
    BY <1>4, <1>5, <2>1 DEF LoadJar, CreateFile, WithoutCookies
<1>6. ASSUME NEW r \in Requests, FillFile(r) PROVE JarInv'
  BY <1>6, <1>t, JarOfOne DEF FillFile, JarAt, Before, After, Ended
<1>f. ASSUME NEW r \in Requests, FillFileFails(r) PROVE JarInv'
  <2>1. /\ pc[r] = "create" /\ pc'[r] = "publish" /\ mine'[r] = NoJar
        /\ \A q \in Requests \ {r} : skip'[q] = skip[q]
    BY <1>f, <1>t DEF FillFileFails, WithoutCookies
  <2>2. ~mode[r].clear /\ ~mode[r].noCookie
    BY <1>t, <2>1 DEF JarAt, Ended
  <2>0. mode' = mode /\ writing' = writing
    BY <1>f DEF FillFileFails
  <2>3. JarAt(r)'
    BY <2>0, <2>1, <2>2, Jars DEF JarAt, Before, After
  <2> QED
    BY <1>f, <1>t, <2>1, <2>3, JarOfOne DEF FillFileFails, WithoutCookies
<1>7. ASSUME NEW r \in Requests, PublishJar(r) PROVE JarInv'
  <2>1. pc[r] = "publish" /\ pc'[r] = "prepare"
    BY <1>7, <1>t DEF PublishJar
  <2>2. JarAt(r)'
    BY <1>7, <1>t, <2>1 DEF PublishJar, JarAt, Before, After, Ended
  <2> QED
    BY <1>7, <1>t, <2>2, JarOfOne DEF PublishJar
<1>8. ASSUME NEW r \in Requests, PrepareCookies(r) PROVE JarInv'
  BY <1>8, <1>t, JarOfOne, Jars DEF PrepareCookies, JarAt, Before, After
<1>9. ASSUME NEW r \in Requests, AssignCookies(r) PROVE JarInv'
  BY <1>9, <1>t, JarOfOne DEF AssignCookies, JarAt, Before, After
<1>10. ASSUME NEW r \in Requests, FollowRedirect(r) PROVE JarInv'
  BY <1>10, <1>t, JarOfOne DEF FollowRedirect, JarAt
<1>11. ASSUME NEW r \in Requests, ReceiveAnswer(r) \/ SendFails(r) PROVE JarInv'
  BY <1>11, <1>t, JarOfOne DEF ReceiveAnswer, SendFails, JarAt, Before, After, Ended
<1>12. ASSUME NEW r \in Requests PROVE Outcome(r) \in {"done", "failed"}
  BY DEF Outcome
<1>13. ASSUME NEW r \in Requests, CheckSave(r) PROVE JarInv'
  <2>1. mode[r].clear => SessionJar(r) \notin FileJars
    BY <1>13, SessionJarType, Jars DEF CheckSave, After
  <2>2. \/ pc'[r] = "save" /\ ~skip[r] /\ ~mode[r].clear /\ ~mode[r].noCookie
        \/ pc'[r] \in {"done", "failed"}
    BY <1>12, <1>13, <1>t, <2>1 DEF CheckSave, JarAt
  <2>3. pc[r] = "check"
    BY <1>13 DEF CheckSave
  <2>4. JarAt(r)'
    BY <1>13, <1>t, <2>2, <2>3 DEF CheckSave, JarAt, Before, After, Ended
  <2> QED
    BY <1>13, <1>t, <2>4, JarOfOne DEF CheckSave
<1>14. ASSUME NEW r \in Requests, OpenForSave(r) PROVE JarInv'
  <2>1. pc[r] = "save" /\ ~mode[r].clear /\ ~mode[r].noCookie
    BY <1>14, <1>t DEF OpenForSave, JarAt, Ended
  <2>2. /\ (pc'[r] = "write" /\ writing'[r].jar \in FileJars) \/ pc'[r] \in {"done", "failed"}
        /\ ~skip'[r]
    BY <1>12, <1>14, <1>t DEF OpenForSave, JarAt
  <2>3. JarAt(r)'
    BY <1>14, <1>t, <2>1, <2>2 DEF OpenForSave, JarAt, Before, After
  <2> QED
    BY <1>14, <1>t, <2>3, JarOfOne DEF OpenForSave
<1>15. ASSUME NEW r \in Requests, WriteJar(r) \/ WriteJarFails(r) PROVE JarInv'
  <2>1. pc[r] = "write" /\ pc'[r] \in {"done", "failed"}
    BY <1>12, <1>15, <1>t DEF WriteJar, WriteJarFails
  <2>2. JarAt(r)'
    BY <1>15, <1>t, <2>1 DEF WriteJar, WriteJarFails, JarAt, Before, After, Ended
  <2> QED
    BY <1>15, <1>t, <2>2, JarOfOne DEF WriteJar, WriteJarFails
<1>16. ASSUME NEW p \in Processes, Crash(p) PROVE JarInv'
  <2>1. ASSUME NEW r \in Requests PROVE JarAt(r)'
    BY <1>16, <1>t DEF Crash, JarAt, Before, After, Ended
  <2> QED
    BY <2>1 DEF JarInv
<1>17. CASE UNCHANGED vars
  BY <1>17, <1>t DEF vars, JarInv, JarAt
<1> QED
  BY <1>1, <1>2, <1>3, <1>5, <1>6, <1>f, <1>7, <1>8, <1>9, <1>10, <1>11, <1>13, <1>14,
     <1>15, <1>16, <1>17 DEF Next, GetCookie, GetResponse

-----------------------------------------------------------------------------
\* Every step keeps the sessions as they should be.
LEMMA SessionStep == IInv /\ [Next]_vars => SessionInv'
<1> SUFFICES ASSUME IInv, [Next]_vars PROVE SessionInv'
  OBVIOUS
<1>t. /\ pc \in [Requests -> Places]
      /\ session \in [Processes -> JarIds \cup {NoJar}]
      /\ \A r \in Requests : JarAt(r) /\ Home(r) \in Processes
      /\ SessionInv
  BY Homes DEF IInv, TypeOK, JarInv
<1> USE DEF perRequest, shared, Goto
<1>1. ASSUME setup' = setup, mode' = mode, session' = session,
             \A r \in Requests : pc'[r] \in After \ {"assign"} => pc[r] \in After \ {"assign"}
      PROVE  SessionInv'
  <2>1. \A r \in Requests : Home(r)' = Home(r)
    BY <1>1
  <2>2. ASSUME NEW r \in Requests, pc'[r] \in After \ {"assign"}, ~mode'[r].clear
        PROVE  session'[Home(r)'] # NoJar
    BY <1>1, <1>t, <2>1, <2>2 DEF SessionInv
  <2> QED
    BY <1>1, <1>t, <2>2 DEF SessionInv
<1>2. ASSUME NEW r \in Requests, AssignCookies(r) PROVE SessionInv'
  <2>1. /\ pc[r] = "assign" /\ setup' = setup /\ mode' = mode
        /\ \A q \in Requests : pc'[q] = IF q = r THEN "send" ELSE pc[q]
    BY <1>2, <1>t DEF AssignCookies
  <2>2. CASE mode[r].clear
    <3>1. session' = session
      BY <1>2, <2>2 DEF AssignCookies
    <3> QED
      BY <1>t, <2>1, <2>2, <3>1 DEF SessionInv
  <2>3. CASE ~mode[r].clear
    <3>1. \A p \in Processes : session'[p] = IF p = Home(r) THEN mine[r] ELSE session[p]
      BY <1>2, <1>t, <2>3 DEF AssignCookies
    <3>2. mine[r] # NoJar /\ \A q \in Requests : mode[q].clear => mine[r] # TmpJar(q)
      BY <1>t, <2>1, <2>3, Jars DEF JarAt, After
    <3> QED
      BY <1>t, <2>1, <3>1, <3>2 DEF SessionInv
  <2> QED
    BY <2>2, <2>3
<1>3. ASSUME NEW p \in Processes, Crash(p) PROVE SessionInv'
  <2>1. /\ \A q \in Processes : session'[q] = IF q = p THEN NoJar ELSE session[q]
        /\ setup' = setup /\ mode' = mode
        /\ \A r \in Requests : pc'[r] = IF r \in Busy(p) THEN "killed" ELSE pc[r]
    BY <1>3, <1>t DEF Crash
  <2>2. ASSUME NEW r \in Requests, pc'[r] \in After
        PROVE  pc'[r] = pc[r] /\ Home(r) # p
    BY <1>t, <2>1, <2>2 DEF Busy, After, Ended
  <2>3. \A r \in Requests : TmpJar(r) # NoJar
    BY Jars
  <2> QED
    BY <1>t, <2>1, <2>2, <2>3 DEF SessionInv
<1>4. ASSUME NEW r \in Requests, ~AssignCookies(r),
             Start(r) \/ GetCookie(r) \/ GetResponse(r)
      PROVE  SessionInv'
  <2>1. setup' = setup /\ mode' = mode /\ session' = session
    BY <1>4 DEF GetCookie, GetResponse, Start, LookForJar, ReuseJar, LoadJar, CreateFile,
       FillFile, FillFileFails, PublishJar, PrepareCookies, FollowRedirect, ReceiveAnswer, SendFails,
       CheckSave, OpenForSave, WriteJar, WriteJarFails
  <2>2. pc'[r] \in After \ {"assign"} => pc[r] \in After \ {"assign"}
    <3>1. CASE Start(r) \/ GetCookie(r) \/ PrepareCookies(r)
      BY <1>t, <3>1 DEF GetCookie, Start, LookForJar, ReuseJar, LoadJar, CreateFile,
         FillFile, FillFileFails, PublishJar, PrepareCookies, WithoutCookies, After
    <3>2. CASE pc[r] \in After \ {"assign"}
      BY <3>2
    <3> QED
      BY <1>4, <3>1, <3>2 DEF GetResponse, FollowRedirect, ReceiveAnswer, SendFails,
         CheckSave, OpenForSave, WriteJar, WriteJarFails, After
  <2>3. \A q \in Requests \ {r} : pc'[q] = pc[q]
    BY <1>4, <1>t DEF GetCookie, GetResponse, Start, LookForJar, ReuseJar, LoadJar, CreateFile,
       FillFile, FillFileFails, PublishJar, PrepareCookies, FollowRedirect, ReceiveAnswer, SendFails,
       CheckSave, OpenForSave, WriteJar, WriteJarFails, WithoutCookies
  <2> QED
    BY <1>1, <2>1, <2>2, <2>3
<1>5. CASE UNCHANGED vars
  BY <1>1, <1>5 DEF vars
<1> QED
  BY <1>2, <1>3, <1>4, <1>5 DEF Next, GetResponse

-----------------------------------------------------------------------------
\* A step of a request that is not its first leaves the others where they
\* are, and the request was running.
LEMMA StepOfOne ==
    ASSUME IInv, NEW r \in Requests, GetCookie(r) \/ GetResponse(r)
    PROVE  Running(r) /\ \A q \in Requests \ {r} : pc'[q] = pc[q] /\ mine'[q] = mine[q]
<1>1. DOMAIN pc = Requests /\ DOMAIN mine = Requests
  BY DEF IInv, TypeOK
<1>2. Running(r)
  BY DEF GetCookie, GetResponse, LookForJar, ReuseJar, LoadJar, CreateFile,
     FillFile, FillFileFails, PublishJar, PrepareCookies, AssignCookies, FollowRedirect, ReceiveAnswer,
     SendFails, CheckSave, OpenForSave, WriteJar, WriteJarFails, Running, Ended
<1> QED
  BY <1>1, <1>2 DEF GetCookie, GetResponse, LookForJar, ReuseJar, LoadJar, CreateFile,
     FillFile, FillFileFails, PublishJar, PrepareCookies, AssignCookies, FollowRedirect, ReceiveAnswer,
     SendFails, CheckSave, OpenForSave, WriteJar, WriteJarFails, WithoutCookies, Goto, perRequest

\* With a pool of one, a request starts when its process is idle.
LEMMA StartsAlone ==
    ASSUME NEW r \in Requests, Start(r), Used.pool = 1
    PROVE  \A q \in Requests : Home(q) = Home(r) => ~Running(q)
<1>1. IsFiniteSet(Busy(Home(r)))
  BY FS_Subset DEF Busy
<1>2. Cardinality(Busy(Home(r))) < 1
  BY DEF Start
<1>3. Cardinality(Busy(Home(r))) = 0
  BY <1>1, <1>2, FS_CardinalityType
<1>4. Busy(Home(r)) = {}
  BY <1>1, <1>3, FS_EmptySet
<1> QED
  BY <1>4 DEF Busy, Running

\* A process stays busy with one request at most.
LEMMA OneStep == IInv /\ [Next]_vars => OneInv'
<1> SUFFICES ASSUME IInv, [Next]_vars, Used'.pool = 1 PROVE OneInv'
  BY DEF OneInv
<1>t. /\ setup' = setup /\ mode' = mode
      /\ \A r \in Requests : Home(r) \in Processes /\ Home(r)' = Home(r)
      /\ Used.pool = 1 /\ OneInv
      /\ pc \in [Requests -> Places]
      /\ session \in [Processes -> JarIds \cup {NoJar}]
  BY AskedStays, Homes DEF IInv, TypeOK
<1>1. ASSUME NEW q \in Requests, NEW r \in Requests, Running(q)', Running(r)',
             Home(q)' = Home(r)'
      PROVE  q = r
  <2>1. ASSUME NEW s \in Requests, GetCookie(s) \/ GetResponse(s)
        PROVE  q = r
    <3>1. \A u \in Requests : Running(u)' => Running(u)
      BY <2>1, StepOfOne DEF Running
    <3> QED
      BY <1>1, <1>t, <3>1 DEF OneInv
  <2>2. ASSUME NEW s \in Requests, Start(s)
        PROVE  q = r
    <3>1. \A u \in Requests : Running(u)' => u = s \/ Running(u)
      BY <1>t, <2>2 DEF Start, Goto, Running
    <3> QED
      BY <1>1, <1>t, <2>2, <3>1, StartsAlone DEF OneInv
  <2>3. ASSUME NEW p \in Processes, Crash(p)
        PROVE  q = r
    <3>1. \A u \in Requests : Running(u)' => Running(u)
      BY <2>3 DEF Crash, Running, Ended
    <3> QED
      BY <1>1, <1>t, <3>1 DEF OneInv
  <2>4. CASE UNCHANGED vars
    BY <1>1, <1>t, <2>4 DEF vars, Running, OneInv
  <2> QED
    BY <2>1, <2>2, <2>3, <2>4 DEF Next
<1>2. ASSUME NEW r \in Requests, pc'[r] \in After \ {"assign"}, ~mode'[r].clear
      PROVE  session'[Home(r)'] = mine'[r]
  <2>r. ~mode[r].clear /\ (pc[r] \in After \ {"assign"} => session[Home(r)] = mine[r])
    BY <1>2, <1>t DEF OneInv
  <2>1. ASSUME NEW s \in Requests, GetCookie(s) \/ GetResponse(s), ~AssignCookies(s)
        PROVE  session'[Home(r)'] = mine'[r]
    <3>1. session' = session
      BY <2>1 DEF GetCookie, GetResponse, LookForJar, ReuseJar, LoadJar, CreateFile,
         FillFile, FillFileFails, PublishJar, PrepareCookies, FollowRedirect, ReceiveAnswer, SendFails,
         CheckSave, OpenForSave, WriteJar, WriteJarFails, shared, perRequest
    <3>2. pc[r] \in After \ {"assign"} /\ mine'[r] = mine[r]
      <4>1. CASE s # r
        BY <1>2, <2>1, <4>1, StepOfOne
      <4>2. CASE s = r /\ (GetCookie(r) \/ PrepareCookies(r))
        BY <1>2, <1>t, <4>2 DEF GetCookie, LookForJar, ReuseJar, LoadJar, CreateFile,
           FillFile, FillFileFails, PublishJar, PrepareCookies, WithoutCookies, Goto, After
      <4>3. CASE s = r /\ ~GetCookie(r) /\ ~PrepareCookies(r)
        BY <2>1, <4>3 DEF GetResponse, FollowRedirect, ReceiveAnswer, SendFails,
           CheckSave, OpenForSave, WriteJar, WriteJarFails, After, perRequest
      <4> QED
        BY <4>1, <4>2, <4>3
    <3> QED
      BY <1>t, <2>r, <3>1, <3>2
  <2>2. ASSUME NEW s \in Requests, AssignCookies(s)
        PROVE  session'[Home(r)'] = mine'[r]
    <3>1. /\ mine' = mine /\ pc[s] = "assign"
          /\ \A p \in Processes :
                session'[p] = IF p = Home(s) /\ ~mode[s].clear THEN mine[s] ELSE session[p]
          /\ \A u \in Requests : u # s => pc'[u] = pc[u]
      BY <1>t, <2>2 DEF AssignCookies, Goto, perRequest
    <3>2. CASE s = r
      BY <1>t, <2>r, <3>1, <3>2
    <3>3. CASE s # r
      <4>1. Running(s) /\ Running(r)
        BY <1>2, <3>1, <3>3 DEF Running, Ended, After
      <4>2. Home(s) # Home(r)
        BY <1>t, <3>3, <4>1 DEF OneInv
      <4> QED
        BY <1>2, <1>t, <2>r, <3>1, <3>3, <4>2
    <3> QED
      BY <3>2, <3>3
  <2>3. ASSUME NEW s \in Requests, Start(s)
        PROVE  session'[Home(r)'] = mine'[r]
    BY <1>2, <1>t, <2>r, <2>3 DEF Start, Goto, After, perRequest, shared
  <2>4. ASSUME NEW p \in Processes, Crash(p)
        PROVE  session'[Home(r)'] = mine'[r]
    <3>1. pc[r] = pc'[r] /\ Home(r) # p
      BY <1>2, <1>t, <2>4 DEF Crash, Busy, After, Ended
    <3> QED
      BY <1>2, <1>t, <2>r, <2>4, <3>1 DEF Crash, perRequest
  <2>5. CASE UNCHANGED vars
    BY <1>2, <1>t, <2>r, <2>5 DEF vars
  <2> QED
    BY <2>1, <2>2, <2>3, <2>4, <2>5 DEF Next, GetResponse
<1> QED
  BY <1>1, <1>2, <1>t DEF OneInv

-----------------------------------------------------------------------------
\* The file never gets a cookie of a request that is apart: what is written
\* comes from a file jar and from the file itself.
LEMMA OverwriteAlone ==
    ASSUME NEW C, NEW r, \A c \in C \cup file.cookies : c.owner # r, Overwrite(C)
    PROVE  \A c \in file'.cookies : c.owner # r
BY DEF Overwrite, Kept

LEMMA SpoilAlone ==
    ASSUME NEW C, NEW r, \A c \in C \cup file.cookies : c.owner # r, Spoil(C)
    PROVE  \A c \in file'.cookies : c.owner # r
<1>1. ASSUME NEW K \in SUBSET C, Overwrite(K) PROVE \A c \in file'.cookies : c.owner # r
  BY <1>1, OverwriteAlone
<1> QED
  BY <1>1 DEF Spoil

\* An answer goes into the jar of the session the request uses.
LEMMA ReceiveAlone ==
    ASSUME IInv, NEW q \in Requests, NEW r \in Requests, Apart(q),
           pc[r] = "send", NEW C \in Answers(r), Receive(r, C)
    PROVE  \A j \in JarIds : \A c \in content'[j] : c.owner = q <=> j = TmpJar(q)
<1>1. /\ SessionJar(r) \in JarIds
      /\ SessionJar(r) = TmpJar(q) <=> r = q
  BY SessionJarType DEF After
<1>2. content \in [JarIds -> SUBSET Cookies] /\ Alone(q)
  BY DEF IInv, TypeOK, AloneInv
<1>3. \A c \in C : c.owner = r
  BY DEF Answers
<1>4. \A j \in JarIds : \A c \in content'[j] :
         c \in content[j] \/ (j = SessionJar(r) /\ c \in C)
  BY <1>2 DEF Receive
<1> QED
  BY <1>1, <1>2, <1>3, <1>4 DEF Alone

\* Every step keeps the requests that are apart alone.
LEMMA AloneStep == IInv /\ [Next]_vars => AloneInv'
<1> SUFFICES ASSUME IInv, [Next]_vars, NEW q \in Requests, Apart(q)'
             PROVE  Alone(q)'
  BY DEF AloneInv
<1>m. mode' = mode /\ setup' = setup
  BY AskedStays
<1>t. /\ content \in [JarIds -> SUBSET Cookies]
      /\ sent \in [Requests -> SUBSET Cookies]
      /\ mine \in [Requests -> JarIds \cup {NoJar}]
      /\ \A r \in Requests : JarAt(r)
      /\ Apart(q)
      /\ Alone(q)
  BY <1>m DEF IInv, TypeOK, JarInv, AloneInv, Apart
<1> USE DEF perRequest, shared
<1>1. ASSUME UNCHANGED <<content, file, sent>> PROVE Alone(q)'
  BY <1>1, <1>t DEF Alone
<1>2. ASSUME UNCHANGED <<content, sent>>, \A c \in file'.cookies : c.owner # q
      PROVE  Alone(q)'
  BY <1>2, <1>t DEF Alone
<1>3. ASSUME NEW r \in Requests,
             \/ Start(r) \/ LookForJar(r) \/ ReuseJar(r) \/ PublishJar(r)
             \/ AssignCookies(r) \/ SendFails(r) \/ CheckSave(r)
      PROVE  Alone(q)'
  BY <1>1, <1>3 DEF Start, LookForJar, ReuseJar, PublishJar, AssignCookies, SendFails, CheckSave
<1>4. ASSUME NEW r \in Requests, LoadJar(r) PROVE Alone(q)'
  <2>1. UNCHANGED <<file, sent>>
    BY <1>4 DEF LoadJar
  <2>2. \A j \in JarIds : content'[j] = content[j] \/ (j = LwpJar(r) /\ content'[j] = file.cookies)
    BY <1>4, <1>t DEF LoadJar
  <2>3. LwpJar(r) # TmpJar(q) /\ \A c \in file.cookies : c.owner # q
    BY <1>t, Jars DEF Alone
  <2> QED
    BY <1>t, <2>1, <2>2, <2>3 DEF Alone
<1>5. ASSUME NEW r \in Requests, CreateFile(r) PROVE Alone(q)'
  <2>1. UNCHANGED <<content, sent>> /\ (file'.cookies = {} \/ file' = file)
    BY <1>5 DEF CreateFile
  <2> QED
    BY <1>t, <1>2, <2>1 DEF Alone
<1>6. ASSUME NEW r \in Requests, FillFile(r) PROVE Alone(q)'
  <2>1. \A c \in {} \cup file.cookies : c.owner # q
    BY <1>t DEF Alone
  <2>2. \A c \in file'.cookies : c.owner # q
    BY <1>6, <2>1, OverwriteAlone DEF FillFile
  <2> QED
    BY <1>6, <1>2, <2>2 DEF FillFile
<1>f. ASSUME NEW r \in Requests, FillFileFails(r) PROVE Alone(q)'
  <2>1. \A c \in {} \cup file.cookies : c.owner # q
    BY <1>t DEF Alone
  <2>2. \A c \in file'.cookies : c.owner # q
    BY <1>f, <2>1, SpoilAlone DEF FillFileFails
  <2> QED
    BY <1>f, <1>2, <2>2 DEF FillFileFails
<1>7. ASSUME NEW r \in Requests, PrepareCookies(r) PROVE Alone(q)'
  <2> DEFINE jar == IF mine[r] = NoJar THEN TmpJar(r) ELSE mine[r]
  <2>1. /\ UNCHANGED <<content, file>>
        /\ \A p \in Requests : sent'[p] = IF p = r THEN content[jar] ELSE sent[p]
    BY <1>7, <1>t DEF PrepareCookies
  <2>2. jar \in JarIds /\ (jar = TmpJar(q) <=> r = q)
    BY <1>t, Jars DEF JarAt, Apart
  <2> HIDE DEF jar
  <2>3. \A c \in content[jar] : c.owner = q <=> r = q
    BY <1>t, <2>2 DEF Alone
  <2> QED
    BY <1>t, <2>1, <2>3 DEF Alone
<1>8. ASSUME NEW r \in Requests, FollowRedirect(r) PROVE Alone(q)'
  <2>1. PICK C \in Answers(r) :
           /\ Receive(r, C)
           /\ sent' = [sent EXCEPT ![r] =
                          @ \cup content[mine[r]] \cup content[SessionJar(r)] \cup C]
    BY <1>8 DEF FollowRedirect
  <2>2. pc[r] = "send" /\ file' = file
    BY <1>8 DEF FollowRedirect
  <2>3. \A j \in JarIds : \A c \in content'[j] : c.owner = q <=> j = TmpJar(q)
    BY <1>t, <2>1, <2>2, ReceiveAlone
  <2>4. mine[r] \in JarIds /\ (mine[r] = TmpJar(q) <=> r = q)
    BY <1>t, <2>2, Jars DEF JarAt, After, Apart
  <2>5. SessionJar(r) \in JarIds /\ (SessionJar(r) = TmpJar(q) <=> r = q)
    BY <1>t, <2>2, Jars, SessionJarType DEF After
  <2>6. \A c \in content[mine[r]] \cup content[SessionJar(r)] : c.owner = q <=> r = q
    BY <1>t, <2>4, <2>5 DEF Alone
  <2>7. \A c \in C : c.owner = r
    BY DEF Answers
  <2>8. \A p \in Requests : \A c \in sent'[p] :
           c \in sent[p] \/ (p = r /\ c \in content[mine[r]] \cup content[SessionJar(r)] \cup C)
    BY <1>t, <2>1
  <2>9. \A p \in Requests : \A c \in sent'[p] : c.owner = q <=> p = q
    BY <1>t, <2>6, <2>7, <2>8 DEF Alone
  <2> QED
    BY <1>t, <2>2, <2>3, <2>9 DEF Alone
<1>9. ASSUME NEW r \in Requests, ReceiveAnswer(r) PROVE Alone(q)'
  <2>1. PICK C \in Answers(r) : Receive(r, C)
    BY <1>9 DEF ReceiveAnswer
  <2>2. pc[r] = "send" /\ UNCHANGED <<file, sent>>
    BY <1>9 DEF ReceiveAnswer
  <2>3. \A j \in JarIds : \A c \in content'[j] : c.owner = q <=> j = TmpJar(q)
    BY <1>t, <2>1, <2>2, ReceiveAlone
  <2> QED
    BY <1>t, <2>2, <2>3 DEF Alone
<1>10. ASSUME NEW r \in Requests, OpenForSave(r) PROVE Alone(q)'
  <2>1. UNCHANGED <<content, sent>> /\ (file'.cookies = {} \/ file' = file)
    BY <1>10 DEF OpenForSave
  <2> QED
    BY <1>t, <1>2, <2>1 DEF Alone
<1>11. ASSUME NEW r \in Requests, WriteJar(r) PROVE Alone(q)'
  <2> DEFINE jar == writing[r].jar
  <2>1. jar \in JarIds /\ jar # TmpJar(q)
    BY <1>11, <1>t, Jars DEF WriteJar, JarAt
  <2>2. \A c \in content[jar] \cup file.cookies : c.owner # q
    BY <1>t, <2>1 DEF Alone
  <2>3. Overwrite(content[jar]) \/ Overwrite({})
    BY <1>11 DEF WriteJar
  <2>4. \A c \in file'.cookies : c.owner # q
    BY <2>2, <2>3, OverwriteAlone
  <2> QED
    BY <1>11, <1>2, <2>4 DEF WriteJar
<1>w. ASSUME NEW r \in Requests, WriteJarFails(r) PROVE Alone(q)'
  <2> DEFINE jar == writing[r].jar
  <2>1. jar \in JarIds /\ jar # TmpJar(q)
    BY <1>w, <1>t, Jars DEF WriteJarFails, JarAt
  <2>2. \A c \in content[jar] \cup file.cookies : c.owner # q
    BY <1>t, <2>1 DEF Alone
  <2>3. \A c \in file'.cookies : c.owner # q
    BY <1>w, <2>2, SpoilAlone DEF WriteJarFails
  <2> QED
    BY <1>w, <1>2, <2>3 DEF WriteJarFails
<1>12. ASSUME NEW p \in Processes, Crash(p) PROVE Alone(q)'
  BY <1>1, <1>12 DEF Crash
<1>13. CASE UNCHANGED vars
  BY <1>1, <1>13 DEF vars
<1> QED
  BY <1>3, <1>4, <1>5, <1>6, <1>f, <1>7, <1>8, <1>9, <1>10, <1>11, <1>w, <1>12, <1>13
     DEF Next, GetCookie, GetResponse

\* Nothing is spoilt where disks do not fail.
LEMMA SpoiltStep == IInv /\ [Next]_vars => SpoiltInv'
<1> SUFFICES ASSUME IInv, [Next]_vars PROVE SpoiltInv'
  OBVIOUS
<1>t. Used' = Used /\ SpoiltInv
  BY AskedStays DEF IInv
<1>1. ASSUME NEW r \in Requests, FillFileFails(r) \/ WriteJarFails(r) PROVE SpoiltInv'
  BY <1>1, <1>t DEF FillFileFails, WriteJarFails, SpoiltInv
<1>2. ASSUME spoilt' = spoilt PROVE SpoiltInv'
  BY <1>2, <1>t DEF SpoiltInv
<1>3. ASSUME NEW r \in Requests, Start(r) \/ GetCookie(r) \/ GetResponse(r),
             ~FillFileFails(r), ~WriteJarFails(r)
      PROVE  spoilt' = spoilt
  BY <1>3 DEF GetCookie, GetResponse, Start, LookForJar, ReuseJar, LoadJar, CreateFile,
     FillFile, PublishJar, PrepareCookies, AssignCookies, FollowRedirect, ReceiveAnswer,
     SendFails, CheckSave, OpenForSave, WriteJar, shared
<1>4. ASSUME NEW p \in Processes, Crash(p) PROVE spoilt' = spoilt
  BY <1>4 DEF Crash
<1> QED
  BY <1>1, <1>2, <1>3, <1>4 DEF Next, vars

-----------------------------------------------------------------------------
\* The invariant holds in every reachable state.
THEOREM Invariance == Spec => []IInv
<1>1. IInv /\ [Next]_vars => IInv'
  BY TypeStep, JarStep, SessionStep, OneStep, AloneStep, SpoiltStep DEF IInv
<1> QED
  BY <1>1, InvInit, PTL DEF Spec

\* Type correctness for any requests, processes, pools and crashes.
THEOREM TypeCorrect == Spec => []TypeOK
<1>1. IInv => TypeOK
  BY DEF IInv
<1> QED
  BY <1>1, Invariance, PTL

\* A request marked @clear shares cookies with no other request, however
\* many run at the same time, in however many processes, and whichever of
\* them are killed.
THEOREM ClearIsIsolated == Spec => []ClearIsolated
<1>1. IInv => ClearIsolated
  <2> SUFFICES ASSUME IInv, NEW r \in Requests, mode[r].clear PROVE Isolated(r)
    BY DEF ClearIsolated
  <2>1. Alone(r)
    BY DEF IInv, AloneInv, Apart
  <2> QED
    BY <2>1 DEF Alone, Isolated, Owners
<1> QED
  BY <1>1, Invariance, PTL

\* Where one thread handles the requests of each process, a request without
\* cookies shares none either, whatever other processes do and whichever are
\* killed.
THEOREM NoCookieIsIsolated == Spec => []NoCookieIsolated
<1>1. IInv => NoCookieIsolated
  <2> SUFFICES ASSUME IInv, Used.pool = 1, NEW r \in Requests, mode[r].noCookie
               PROVE  Isolated(r)
    BY DEF NoCookieIsolated
  <2>1. Alone(r)
    BY DEF IInv, AloneInv, Apart
  <2> QED
    BY <2>1 DEF Alone, Isolated, Owners
<1> QED
  BY <1>1, Invariance, PTL

\* The step that ends the writing of the file leaves it readable; the other
\* ways out of the writing are a crash.
LEMMA ReadableStep == IInv /\ FileReadable /\ [Next]_vars => FileReadable'
<1> SUFFICES ASSUME IInv, FileReadable, [Next]_vars PROVE FileReadable'
  OBVIOUS
<1>c. crashes' \in Nat
  <2>1. Used' = Used /\ Used.maxCrashes \in Nat
    BY Homes, AskedStays DEF IInv, TypeOK
  <2> QED
    BY <2>1, TypeStep DEF TypeOK
<1> SUFFICES ASSUME file'.state = "torn", crashes' = 0, ~spoilt'
             PROVE  \E r \in Requests : pc'[r] \in {"create", "write"}
  BY <1>c DEF FileReadable
<1>t. pc \in [Requests -> Places] /\ crashes \in Nat
  BY Homes DEF IInv, TypeOK
<1> USE DEF shared, perRequest, Goto
<1>1. ASSUME NEW r \in Requests, CreateFile(r) \/ OpenForSave(r), file' # file
      PROVE  pc'[r] \in {"create", "write"}
  BY <1>1, <1>t DEF CreateFile, OpenForSave
<1>2. ASSUME NEW r \in Requests, FillFile(r) \/ WriteJar(r)
      PROVE  FALSE
  BY <1>2 DEF FillFile, WriteJar, Overwrite
<1>f. ASSUME NEW r \in Requests, FillFileFails(r) \/ WriteJarFails(r)
      PROVE  FALSE
  BY <1>f DEF FillFileFails, WriteJarFails, Spoil
<1>3. ASSUME NEW r \in Requests,
             Start(r) \/ GetCookie(r) \/ GetResponse(r), ~FillFile(r), ~WriteJar(r),
             ~FillFileFails(r), ~WriteJarFails(r), file' = file
      PROVE  \E q \in Requests : pc'[q] \in {"create", "write"}
  <2>1. crashes' = crashes /\ spoilt' = spoilt /\ pc[r] \notin {"create", "write"}
    BY <1>3 DEF GetCookie, GetResponse, Start, LookForJar, ReuseJar, LoadJar, CreateFile,
       PublishJar, PrepareCookies, AssignCookies, FollowRedirect, ReceiveAnswer,
       SendFails, CheckSave, OpenForSave
  <2>2. PICK q \in Requests : pc[q] \in {"create", "write"}
    BY <1>3, <1>t, <2>1 DEF FileReadable
  <2>3. pc'[q] = pc[q]
    BY <1>3, <1>t, <2>1, <2>2, StepOfOne DEF Start
  <2> QED
    BY <2>2, <2>3
<1>4. ASSUME NEW r \in Requests, Start(r) \/ GetCookie(r) \/ GetResponse(r),
             ~CreateFile(r), ~OpenForSave(r), ~FillFile(r), ~WriteJar(r),
             ~FillFileFails(r), ~WriteJarFails(r)
      PROVE  file' = file
  BY <1>4 DEF GetCookie, GetResponse, Start, LookForJar, ReuseJar, LoadJar,
     PublishJar, PrepareCookies, AssignCookies, FollowRedirect, ReceiveAnswer,
     SendFails, CheckSave
<1>5. ASSUME NEW p \in Processes, Crash(p) PROVE FALSE
  BY <1>5, <1>t DEF Crash
<1>6. CASE UNCHANGED vars
  BY <1>6 DEF vars, FileReadable
<1> QED
  BY <1>1, <1>2, <1>f, <1>3, <1>4, <1>5, <1>6 DEF Next, GetCookie, GetResponse

\* The jar file is unreadable only while it is written, unless a process was
\* killed or a write failed in the middle: no interleaving of saves, of any
\* number of threads and processes, and no jar that changes while it is saved
\* or disk that refuses to open the file leaves it so (request_base.py:109-122,
\* 715-719).
THEOREM FileIsReadable == Spec => []FileReadable
<1>1. Init => FileReadable
  BY DEF Init, FileReadable
<1> QED
  BY <1>1, ReadableStep, Invariance, PTL DEF Spec

\* A file that cannot be loaded is never written again once no process has a
\* jar in memory: whoever needs cookies fails to load it and goes on without
\* (request_base.py:109-123, 715).
THEOREM TornFilesStayTorn == Spec => TornFileDisablesCookies
<1>1. ASSUME IInv, [Next]_vars, NoJarInMemory, file.state = "torn"
      PROVE  NoJarInMemory' /\ file'.state = "torn"
  <2>t. /\ mode' = mode /\ setup' = setup
        /\ \A r \in Requests : JarAt(r) /\ Home(r) \in Processes
        /\ pc \in [Requests -> Places] /\ skip \in [Requests -> BOOLEAN]
        /\ globalJar \in [Processes -> FileJars \cup {NoJar}]
    BY <1>1, AskedStays, Homes DEF IInv, TypeOK, JarInv
  <2>0. ASSUME NEW r \in Requests
        PROVE  pc[r] \notin Ended \cup {"queued", "look", "open"} => skip[r] \/ mode[r].clear
    BY <1>1 DEF NoJarInMemory
  <2>1. ASSUME NEW r \in Requests, globalJar' = globalJar, file' = file,
               \A q \in Requests \ {r} : pc'[q] = pc[q] /\ skip'[q] = skip[q],
               \/ pc'[r] \in Ended \cup {"queued", "look", "open"}
               \/ skip'[r] \/ mode[r].clear
        PROVE  NoJarInMemory' /\ file'.state = "torn"
    BY <1>1, <2>1, <2>t DEF NoJarInMemory
  <2> USE DEF perRequest, shared, Goto
  <2>2. ASSUME NEW r \in Requests, Start(r) PROVE NoJarInMemory' /\ file'.state = "torn"
    BY <2>1, <2>2, <2>t DEF Start
  <2>3. ASSUME NEW r \in Requests, LookForJar(r) PROVE NoJarInMemory' /\ file'.state = "torn"
    BY <1>1, <2>1, <2>3, <2>t DEF LookForJar, NoJarInMemory
  <2>4. ASSUME NEW r \in Requests, ReuseJar(r) \/ CreateFile(r) \/ FillFile(r) \/ FillFileFails(r)
        PROVE  FALSE
    <3>1. ~mode[r].clear /\ ~skip[r] => FALSE
      BY <1>1, <2>0, <2>4 DEF ReuseJar, CreateFile, FillFile, FillFileFails, Ended
    <3> QED
      BY <1>1, <2>4, <2>t, <3>1 DEF ReuseJar, CreateFile, FillFile, FillFileFails, JarAt, Ended
  <2>5. ASSUME NEW r \in Requests, LoadJar(r) PROVE NoJarInMemory' /\ file'.state = "torn"
    <3>1. WithoutCookies(r)
      BY <1>1, <2>5 DEF LoadJar
    <3>2. skip'[r] /\ \A q \in Requests \ {r} : pc'[q] = pc[q] /\ skip'[q] = skip[q]
      BY <2>t, <3>1 DEF WithoutCookies
    <3> QED
      BY <2>1, <2>5, <3>2 DEF LoadJar
  <2>6. ASSUME NEW r \in Requests, PublishJar(r) PROVE NoJarInMemory' /\ file'.state = "torn"
    <3>1. skip[r] /\ mine[r] = NoJar
      BY <2>0, <2>6, <2>t DEF PublishJar, JarAt, Ended
    <3>2. globalJar' = globalJar
      BY <1>1, <2>6, <2>t, <3>1 DEF PublishJar, NoJarInMemory
    <3> QED
      BY <2>1, <2>6, <2>t, <3>1, <3>2 DEF PublishJar
  <2>7. ASSUME NEW r \in Requests,
               \/ PrepareCookies(r) \/ AssignCookies(r) \/ FollowRedirect(r)
               \/ ReceiveAnswer(r) \/ SendFails(r) \/ CheckSave(r)
        PROVE  NoJarInMemory' /\ file'.state = "torn"
    <3>1. pc[r] \in {"prepare", "assign", "send", "check"}
      BY <2>7 DEF PrepareCookies, AssignCookies, FollowRedirect, ReceiveAnswer, SendFails, CheckSave
    <3>2. skip[r] \/ mode[r].clear
      BY <2>0, <3>1 DEF Ended
    <3>3. /\ skip' = skip /\ globalJar' = globalJar /\ file' = file
          /\ \A q \in Requests \ {r} : pc'[q] = pc[q]
      BY <2>7, <2>t DEF PrepareCookies, AssignCookies, FollowRedirect, ReceiveAnswer, SendFails, CheckSave
    <3> QED
      BY <2>1, <3>2, <3>3
  <2>8. ASSUME NEW r \in Requests, OpenForSave(r) \/ WriteJar(r) \/ WriteJarFails(r)
        PROVE  FALSE
    <3>1. pc[r] \in {"save", "write"}
      BY <2>8 DEF OpenForSave, WriteJar, WriteJarFails
    <3> QED
      BY <2>0, <2>t, <3>1 DEF JarAt, Ended
  <2>9. ASSUME NEW p \in Processes, Crash(p) PROVE NoJarInMemory' /\ file'.state = "torn"
    BY <1>1, <2>9, <2>t DEF Crash, NoJarInMemory, Ended
  <2>10. CASE UNCHANGED vars
    BY <1>1, <2>10 DEF vars, NoJarInMemory
  <2> QED
    BY <1>1, <2>2, <2>3, <2>4, <2>5, <2>6, <2>7, <2>8, <2>9, <2>10 DEF Next, GetCookie, GetResponse
<1> QED
  BY <1>1, Invariance, PTL DEF Spec, TornFileDisablesCookies
-----------------------------------------------------------------------------
\* One request after the other.  No request without cookies has been handled.
NoneWithout == \A q \in Requests : mode[q].noCookie => pc[q] = "queued"

\* The cookies C are enough that none that was received is lost.
Holds(C) == Kept(Received) \subseteq C /\ (NoneWithout => Received \subseteq C)

\* What a request that uses cookies has done so far.
SeqAt(r) ==
    /\ ~skip[r]
    /\ pc[r] \notin {"queued", "look", "reuse", "open"} => file.state # "absent"
    /\ pc[r] = "reuse" => globalJar[Home(r)] # NoJar
    /\ pc[r] = "open" => (NoneWithout => Received = {})
    /\ pc[r] = "create" => Received = {}
    /\ pc[r] \in {"create", "publish", "prepare"} \cup After =>
          mine[r] \in FileJars /\ Holds(content[mine[r]])
    /\ pc[r] \in {"prepare"} \cup After => globalJar[Home(r)] = mine[r]
    /\ pc[r] \in Before \cup {"prepare", "assign"} => got[r] = {}
    /\ pc[r] \in {"send", "check", "save", "write"} /\ ~mode[r].retry =>
          got[r] \subseteq content[mine[r]]
    /\ pc[r] = "write" => writing[r].jar = mine[r] /\ writing[r].seen = content[mine[r]]

\* What a jar that the next request finds has to hold.
SeqJar(r) ==
    IF globalJar[Home(r)] = NoJar
    THEN NoneWithout => Received = {}
    ELSE file.state # "absent" /\ Holds(content[globalJar[Home(r)]])

SeqFile == file.state = "ok" => Kept(Received) \subseteq file.cookies

SeqInv ==
    Sequential =>
        /\ \A r \in Requests : pc[r] # "queued" => r \in Used.requests
        /\ \A r \in Used.requests : SeqJar(r)
        /\ \A r \in Requests : UsesCookies(r) => SeqAt(r)
        /\ SeqFile

LEMMA SeqInit == Init => SeqInv
<1> SUFFICES ASSUME Init, Sequential PROVE SeqInv
  BY DEF SeqInv
<1>1. Received = {}
  BY DEF Init, Received
<1>2. \A r \in Used.requests : SeqJar(r)
  <2>1. Used \in SetupType
    BY DEF Init
  <2>2. \A r \in Used.requests : Home(r) \in Processes
    BY <2>1 DEF SetupType
  <2> QED
    BY <1>1, <2>2 DEF Init, SeqJar
<1>3. \A r \in Requests : UsesCookies(r) => SeqAt(r)
  BY DEF Init, SeqAt, UsesCookies, Before, After
<1>4. SeqFile
  BY DEF Init, SeqFile
<1> QED
  BY <1>2, <1>3, <1>4 DEF Init, SeqInv

\* All requests of one process are handled in the same one.
LEMMA SameHome ==
    ASSUME Sequential, setup \in DOMAIN Setups
    PROVE  /\ Used.requests \subseteq Requests
           /\ \A q, r \in Used.requests : Home(q) = Home(r)
           /\ Used.pool = 1 /\ Used.maxCrashes = 0 /\ ~Used.diskFails
<1>1. Used \in SetupType
  OBVIOUS
<1>2. Used.requests \subseteq Requests
  BY <1>1 DEF SetupType
<1> DEFINE homes == {Home(r) : r \in Used.requests}
           home == [r \in Used.requests |-> Home(r)]
<1>3. IsFiniteSet(Used.requests)
  BY <1>2, FS_Subset
<1>4. home \in Surjection(Used.requests, homes)
  BY DEF Surjection
<1>5. IsFiniteSet(homes)
  BY <1>3, <1>4, FS_Surjection
<1>6. Cardinality(homes) = 1
  BY DEF Sequential
<1>7. PICK h : homes = {h}
  BY <1>5, <1>6, FS_Singleton
<1>8. \A r \in Used.requests : Home(r) = h
  BY <1>7
<1> QED
  BY <1>2, <1>8 DEF Sequential

\* So one request at most is under way.
LEMMA OnlyOne ==
    ASSUME IInv, SeqInv, Sequential, NEW q \in Requests, NEW r \in Requests,
           Running(q), Running(r)
    PROVE  q = r
<1>1. setup \in DOMAIN Setups /\ OneInv
  BY DEF IInv, TypeOK
<1>2. q \in Used.requests /\ r \in Used.requests
  BY DEF SeqInv, Running, Ended
<1> QED
  BY <1>1, <1>2, SameHome DEF OneInv

\* What a step of r leaves of the others.
LEMMA OthersStay ==
    ASSUME IInv, NEW r \in Requests, Start(r) \/ GetCookie(r) \/ GetResponse(r)
    PROVE  \A q \in Requests \ {r} :
              /\ pc'[q] = pc[q] /\ mine'[q] = mine[q] /\ got'[q] = got[q]
              /\ skip'[q] = skip[q] /\ writing'[q] = writing[q]
<1>1. DOMAIN pc = Requests /\ DOMAIN mine = Requests /\ DOMAIN got = Requests
      /\ DOMAIN skip = Requests /\ DOMAIN writing = Requests
  BY DEF IInv, TypeOK
<1> QED
  BY <1>1 DEF Start, GetCookie, GetResponse, LookForJar, ReuseJar, LoadJar, CreateFile,
     FillFile, FillFileFails, PublishJar, PrepareCookies, AssignCookies, FollowRedirect, ReceiveAnswer,
     SendFails, CheckSave, OpenForSave, WriteJar, WriteJarFails, WithoutCookies, Goto, perRequest, Receive

\* No request goes back to where it has not been started, and the file does
\* not go away.
LEMMA NoWayBack ==
    ASSUME IInv, [Next]_vars
    PROVE  /\ NoneWithout' => NoneWithout
           /\ file.state # "absent" => file'.state # "absent"
<1>1. mode' = mode
  BY AskedStays
<1>2. \A r \in Requests : pc'[r] = "queued" => pc[r] = "queued"
  <2>1. ASSUME NEW s \in Requests, Start(s) \/ GetCookie(s) \/ GetResponse(s)
        PROVE  pc'[s] # "queued"
    <3>1. pc \in [Requests -> Places]
      BY DEF IInv, TypeOK
    <3> QED
      BY <2>1, <3>1 DEF Start, GetCookie, GetResponse, LookForJar, ReuseJar, LoadJar, CreateFile,
         FillFile, FillFileFails, PublishJar, PrepareCookies, AssignCookies, FollowRedirect, ReceiveAnswer,
         SendFails, CheckSave, OpenForSave, WriteJar, WriteJarFails, WithoutCookies, Goto, perRequest, Outcome
  <2>2. ASSUME NEW p \in Processes, Crash(p)
        PROVE  \A r \in Requests : pc'[r] = "queued" => pc[r] = "queued"
    BY <2>2 DEF Crash
  <2> QED
    BY <2>1, <2>2, OthersStay DEF Next, vars
<1>3. file.state # "absent" => file'.state # "absent"
  BY DEF Next, GetCookie, GetResponse, Start, LookForJar, ReuseJar, LoadJar, CreateFile,
     FillFile, FillFileFails, PublishJar, PrepareCookies, AssignCookies, FollowRedirect, ReceiveAnswer,
     SendFails, CheckSave, OpenForSave, WriteJar, WriteJarFails, Crash, shared, vars, Overwrite,
     Spoil
<1> QED
  BY <1>1, <1>2, <1>3 DEF NoneWithout

\* What was received changes only when a request is done, by what it got.
LEMMA ReceivedMore ==
    ASSUME IInv, NEW r \in Requests, Start(r) \/ GetCookie(r) \/ GetResponse(r)
    PROVE  /\ pc'[r] # "done" => Received' = Received
           /\ \A c \in Received' : \/ c \in Received
                                   \/ c \in got'[r] /\ UsesCookies(r) /\ ~mode[r].retry
<1>1. mode' = mode
  BY AskedStays DEF Next
<1>2. \A q \in Requests \ {r} : pc'[q] = pc[q] /\ got'[q] = got[q]
  BY OthersStay
<1>3. pc[r] # "done"
  BY StepOfOne DEF Start, Running, Ended
<1>4. \A q \in Requests : UsesCookies(q)' <=> UsesCookies(q)
  BY <1>1 DEF UsesCookies
<1> DEFINE Q == {q \in Requests : pc[q] = "done" /\ UsesCookies(q) /\ ~mode[q].retry}
           S == {q \in Requests : pc'[q] = "done" /\ UsesCookies(q) /\ ~mode[q].retry}
<1>5. Received = UNION {got[q] : q \in Q} /\ Received' = UNION {got'[q] : q \in S}
  BY <1>1, <1>4 DEF Received
<1>6. \A q \in Q : q # r /\ q \in S /\ got'[q] = got[q]
  BY <1>2, <1>3
<1>7. \A q \in S : q # r => q \in Q /\ got'[q] = got[q]
  BY <1>2
<1> HIDE DEF Q, S
<1>8. ASSUME NEW c \in Received'
      PROVE  c \in Received \/ (r \in S /\ c \in got'[r])
  BY <1>5, <1>7
<1>9. ASSUME pc'[r] # "done" PROVE Received' = Received
  <2>1. r \notin S
    BY <1>9 DEF S
  <2>2. \A c \in Received : c \in Received'
    BY <1>5, <1>6
  <2> QED
    BY <1>8, <2>1, <2>2
<1> QED
  BY <1>8, <1>9 DEF S

\* A jar that holds what was received does so after a step that adds to it
\* what the step adds to what was received.
LEMMA HoldsMore ==
    ASSUME NEW C, NEW D, Holds(C), C \subseteq D, NoneWithout' => NoneWithout,
           \A c \in Received' : c \in Received \/ c \in D
    PROVE  /\ Kept(Received') \subseteq D
           /\ NoneWithout' => Received' \subseteq D
BY DEF Holds, Kept

\* The assumptions of each step below.
SeqBefore == IInv /\ FileReadable /\ SeqInv /\ Sequential

\* What the steps of r have in common: everything that is shared is about r's
\* own process, and nobody else's place matters.
LEMMA SeqFrame ==
    ASSUME SeqBefore, [Next]_vars, NEW r \in Requests,
           Start(r) \/ GetCookie(r) \/ GetResponse(r),
           UsesCookies(r) => SeqAt(r)',
           SeqJar(r)', SeqFile'
    PROVE  SeqInv'
<1>t. /\ setup' = setup /\ mode' = mode /\ setup \in DOMAIN Setups
      /\ \A q \in Requests : (UsesCookies(q)' <=> UsesCookies(q)) /\ Home(q)' = Home(q)
      /\ (NoneWithout' => NoneWithout)
      /\ (file.state # "absent" => file'.state # "absent")
  BY AskedStays, NoWayBack DEF SeqBefore, IInv, TypeOK, UsesCookies
<1>r. r \in Used.requests
  <2>1. CASE Start(r)
    BY <2>1 DEF Start
  <2>2. CASE ~Start(r)
    BY <2>2, StepOfOne DEF SeqBefore, SeqInv, Running, Ended
  <2> QED
    BY <2>1, <2>2
<1>1. ASSUME NEW q \in Requests \ {r} PROVE ~Running(q)
  <2>1. CASE Start(r)
    <3>1. pc[q] # "queued" => Home(q) = Home(r)
      BY <1>t, <1>r, SameHome DEF SeqBefore, SeqInv
    <3> QED
      BY <2>1, <3>1, <1>t, SameHome, StartsAlone DEF SeqBefore, Running
  <2>2. CASE ~Start(r)
    BY <1>1, <2>2, StepOfOne, OnlyOne DEF SeqBefore
  <2> QED
    BY <2>1, <2>2
<1>2. ASSUME NEW q \in Requests, UsesCookies(q) PROVE SeqAt(q)'
  <2>1. CASE q # r
    <3>1. /\ pc'[q] = pc[q] /\ got'[q] = got[q] /\ skip'[q] = skip[q]
          /\ pc[q] \in Ended \cup {"queued"}
      BY <1>1, <2>1, OthersStay DEF SeqBefore, Running
    <3>2. SeqAt(q)
      BY <1>2 DEF SeqBefore, SeqInv
    <3> QED
      BY <1>t, <3>1, <3>2 DEF SeqAt, Ended, Before, After
  <2> QED
    BY <1>2, <2>1
<1>3. ASSUME NEW q \in Used.requests PROVE SeqJar(q)'
  <2>1. Home(q)' = Home(r)'
    BY <1>t, <1>r, <1>3, SameHome DEF SeqBefore
  <2> QED
    BY <2>1 DEF SeqJar
<1>4. \A q \in Requests : pc'[q] # "queued" => q \in Used.requests
  BY <1>r, OthersStay DEF SeqBefore, SeqInv
<1> QED
  BY <1>t, <1>2, <1>3, <1>4 DEF SeqInv, Sequential

\* A step that ends no request and leaves the jars alone.
LEMMA SeqSame ==
    ASSUME SeqBefore, [Next]_vars, NEW r \in Requests,
           Start(r) \/ GetCookie(r) \/ GetResponse(r),
           UsesCookies(r) => SeqAt(r)',
           pc'[r] # "done", globalJar' = globalJar, content' = content,
           file' = file
    PROVE  SeqInv'
<1>t. /\ setup' = setup /\ Received' = Received /\ (NoneWithout' => NoneWithout)
      /\ r \in Used.requests /\ (file'.state # "absent" <=> file.state # "absent")
  <2>1. r \in Used.requests
    <3>1. CASE Start(r)
      BY <3>1 DEF Start
    <3>2. CASE ~Start(r)
      BY <3>2, StepOfOne DEF SeqBefore, SeqInv, Running, Ended
    <3> QED
      BY <3>1, <3>2
  <2> QED
    BY <2>1, AskedStays, NoWayBack, ReceivedMore DEF SeqBefore
<1>1. SeqJar(r)'
  BY <1>t DEF SeqBefore, SeqInv, SeqJar, Holds
<1>2. SeqFile'
  BY <1>t DEF SeqBefore, SeqInv, SeqFile
<1> QED
  BY <1>1, <1>2, SeqFrame

\* What is known of the request that takes a step.
LEMMA SeqKnown ==
    ASSUME SeqBefore, [Next]_vars, NEW r \in Requests,
           Start(r) \/ GetCookie(r) \/ GetResponse(r)
    PROVE  /\ setup' = setup /\ mode' = mode /\ Home(r)' = Home(r) /\ Home(r) \in Processes
           /\ r \in Used.requests /\ SeqJar(r) /\ SeqFile /\ JarAt(r)
           /\ UsesCookies(r) => SeqAt(r)
           /\ NoneWithout' => NoneWithout
           /\ file.state # "absent" => file'.state # "absent"
           /\ pc \in [Requests -> Places] /\ mine \in [Requests -> JarIds \cup {NoJar}]
           /\ content \in [JarIds -> SUBSET Cookies] /\ skip \in [Requests -> BOOLEAN]
           /\ got \in [Requests -> SUBSET Cookies] /\ DOMAIN writing = Requests
           /\ globalJar \in [Processes -> FileJars \cup {NoJar}]
           /\ file \in FileState
<1>1. r \in Used.requests
  <2>1. CASE Start(r)
    BY <2>1 DEF Start
  <2>2. CASE ~Start(r)
    BY <2>2, StepOfOne DEF SeqBefore, SeqInv, Running, Ended
  <2> QED
    BY <2>1, <2>2
<1> QED
  BY <1>1, AskedStays, NoWayBack, Homes DEF SeqBefore, IInv, TypeOK, JarInv, SeqInv

\* The steps that touch no jar and no file.
LEMMA SeqQuiet ==
    ASSUME SeqBefore, [Next]_vars, NEW r \in Requests,
           \/ Start(r) \/ LookForJar(r) \/ ReuseJar(r) \/ PrepareCookies(r)
           \/ AssignCookies(r) \/ SendFails(r)
    PROVE  SeqInv'
<1>a. Start(r) \/ GetCookie(r) \/ GetResponse(r)
  BY DEF GetCookie, GetResponse
<1>t. /\ globalJar' = globalJar /\ content' = content /\ file' = file
      /\ got' = got /\ skip' = skip /\ writing' = writing
      /\ \A q \in Requests \ {r} : pc'[q] = pc[q] /\ mine'[q] = mine[q]
  BY <1>a, OthersStay DEF Start, LookForJar, ReuseJar, PrepareCookies, AssignCookies, SendFails, shared,
     perRequest, SeqBefore
<1>k. /\ pc \in [Requests -> Places] /\ mine \in [Requests -> JarIds \cup {NoJar}]
      /\ Home(r)' = Home(r) /\ mode' = mode /\ Home(r) \in Processes
      /\ SeqJar(r) /\ (UsesCookies(r) => SeqAt(r))
      /\ JarAt(r)
      /\ globalJar \in [Processes -> FileJars \cup {NoJar}]
      /\ (NoneWithout' => NoneWithout)
  BY <1>a, SeqKnown
<1>1. pc'[r] # "done"
  BY <1>k DEF Start, LookForJar, ReuseJar, PrepareCookies, AssignCookies, SendFails, Goto
<1>2. Received' = Received
  BY <1>1, <1>a, ReceivedMore DEF SeqBefore
<1>3. ASSUME UsesCookies(r) PROVE SeqAt(r)'
  <2>k. SeqAt(r)
    BY <1>3, <1>k
  <2> USE <1>t, <1>k, <1>2, <1>3, <2>k DEF Goto, perRequest
  <2>h. \A C : Holds(C) => Kept(Received') \subseteq C /\ (NoneWithout' => Received' \subseteq C)
    BY DEF Holds
  <2>1. CASE Start(r)
    <3>1. pc'[r] = "look" /\ pc[r] = "queued"
      BY <2>1 DEF Start, UsesCookies, SeqAt
    <3> QED
      BY <3>1 DEF SeqAt, Before, After
  <2>2. CASE LookForJar(r)
    <3> DEFINE jar == globalJar[Home(r)]
    <3>1. /\ pc[r] = "look"
          /\ pc'[r] = IF jar # NoJar /\ content[jar] # {} THEN "reuse" ELSE "open"
      BY <2>2 DEF LookForJar
    <3>2. pc'[r] = "open" => (NoneWithout => Received = {})
      BY <3>1 DEF SeqJar, Holds
    <3> QED
      BY <3>1, <3>2 DEF SeqAt, Before, After
  <2>3. CASE ReuseJar(r)
    <3>1. pc[r] = "reuse" /\ pc'[r] = "prepare" /\ mine'[r] = globalJar[Home(r)]
      BY <2>3 DEF ReuseJar
    <3>2. mine'[r] \in FileJars /\ Holds(content[mine'[r]]) /\ file.state # "absent"
      BY <3>1 DEF SeqAt, SeqJar
    <3> QED
      BY <2>h, <3>1, <3>2 DEF SeqAt, Before, After, Holds
  <2>4. CASE PrepareCookies(r)
    <3>1. pc[r] = "prepare" /\ pc'[r] = "assign" /\ mine'[r] = mine[r]
      BY <2>4, Jars DEF PrepareCookies, SeqAt
    <3> QED
      BY <2>h, <3>1 DEF SeqAt, Before, After, Holds
  <2>5. CASE AssignCookies(r)
    <3>1. pc[r] = "assign" /\ pc'[r] = "send" /\ mine'[r] = mine[r]
      BY <2>5 DEF AssignCookies
    <3> QED
      BY <2>h, <3>1 DEF SeqAt, Before, After, Holds
  <2>6. CASE SendFails(r)
    <3>1. pc[r] = "send" /\ pc'[r] \in {"check", "failed"} /\ mine'[r] = mine[r]
      BY <2>6 DEF SendFails
    <3> QED
      BY <2>h, <3>1 DEF SeqAt, Before, After, Holds
  <2> QED
    BY <2>1, <2>2, <2>3, <2>4, <2>5, <2>6
<1> QED
  BY <1>a, <1>t, <1>1, <1>3, SeqSame

\* Nobody writes the file while a request is elsewhere, so it can be read.
LEMMA SeqReadable ==
    ASSUME SeqBefore, NEW r \in Requests, Running(r), pc[r] \notin {"create", "write"}
    PROVE  file.state # "torn"
<1>1. crashes = 0 /\ ~spoilt
  BY SameHome DEF SeqBefore, IInv, TypeOK, SpoiltInv
<1>2. SUFFICES ASSUME file.state = "torn" PROVE FALSE
  OBVIOUS
<1>3. PICK q \in Requests : pc[q] \in {"create", "write"}
  BY <1>1, <1>2 DEF SeqBefore, FileReadable
<1>4. q = r
  BY <1>3, OnlyOne DEF SeqBefore, Running, Ended
<1> QED
  BY <1>3, <1>4

\* If the file has never been there, nothing was received.
LEMMA NothingYet ==
    ASSUME SeqBefore, file.state = "absent"
    PROVE  Received = {}
<1>1. \A q \in Requests : pc[q] = "done" => ~UsesCookies(q)
  BY DEF SeqBefore, SeqInv, SeqAt
<1> QED
  BY <1>1 DEF Received

LEMMA SeqLoad ==
    ASSUME SeqBefore, [Next]_vars, NEW r \in Requests, LoadJar(r)
    PROVE  SeqInv'
<1>a. GetCookie(r)
  BY DEF GetCookie
<1>k. /\ pc \in [Requests -> Places] /\ mine \in [Requests -> JarIds \cup {NoJar}]
      /\ Home(r)' = Home(r) /\ mode' = mode /\ Home(r) \in Processes
      /\ SeqJar(r) /\ (UsesCookies(r) => SeqAt(r)) /\ SeqFile
      /\ JarAt(r) /\ pc[r] = "open"
      /\ content \in [JarIds -> SUBSET Cookies]
      /\ globalJar \in [Processes -> FileJars \cup {NoJar}]
      /\ (NoneWithout' => NoneWithout)
  BY <1>a, SeqKnown DEF LoadJar
<1>1. file.state = "ok"
  BY <1>k, SeqReadable DEF LoadJar, Running, Ended
<1>2. /\ content' = [content EXCEPT ![LwpJar(r)] = file.cookies]
      /\ mine'[r] = LwpJar(r) /\ pc'[r] = "publish" /\ skip' = skip
      /\ UNCHANGED <<got, writing, globalJar, file>>
  BY <1>1, <1>k DEF LoadJar, Goto
<1>3. Received' = Received
  BY <1>2, <1>a, ReceivedMore DEF SeqBefore
<1>4. UsesCookies(r)
  BY <1>k DEF UsesCookies, JarAt, Ended
<1>5. /\ Kept(Received') \subseteq file.cookies
      /\ NoneWithout' => Received' = {}
  BY <1>1, <1>3, <1>4, <1>k DEF SeqAt, SeqFile
<1>6. LwpJar(r) \in FileJars /\ LwpJar(r) \in JarIds
  BY Jars
<1>7. SeqAt(r)'
  BY <1>1, <1>2, <1>4, <1>5, <1>6, <1>k DEF SeqAt, Before, After, Holds
<1>8. SeqJar(r)'
  <2>1. CASE globalJar[Home(r)] = NoJar
    BY <1>2, <1>3, <1>k, <2>1 DEF SeqJar
  <2>2. CASE globalJar[Home(r)] # NoJar
    <3> DEFINE jar == globalJar[Home(r)]
    <3>1. jar \in JarIds
      BY <1>k, <2>2, Jars
    <3>2. content'[jar] = content[jar] \/ content'[jar] = file.cookies
      BY <1>2, <1>k, <3>1
    <3>3. Kept(Received') \subseteq content'[jar] /\ (NoneWithout' => Received' \subseteq content'[jar])
      BY <1>3, <1>5, <1>k, <2>2, <3>2 DEF SeqJar, Holds
    <3> QED
      BY <1>2, <1>k, <2>2, <3>3, <1>1 DEF SeqJar, Holds
  <2> QED
    BY <2>1, <2>2
<1>9. SeqFile'
  BY <1>2, <1>3, <1>k DEF SeqFile
<1> QED
  BY <1>a, <1>7, <1>8, <1>9, SeqFrame

LEMMA SeqCreate ==
    ASSUME SeqBefore, [Next]_vars, NEW r \in Requests, CreateFile(r)
    PROVE  SeqInv'
<1>a. GetCookie(r)
  BY DEF GetCookie
<1>k. /\ pc \in [Requests -> Places] /\ mine \in [Requests -> JarIds \cup {NoJar}]
      /\ Home(r)' = Home(r) /\ mode' = mode
      /\ (UsesCookies(r) => SeqAt(r))
      /\ JarAt(r) /\ pc[r] = "open"
      /\ content \in [JarIds -> SUBSET Cookies]
  BY <1>a, SeqKnown DEF CreateFile
<1>1. ~Used.diskFails
  BY SameHome DEF SeqBefore, IInv, TypeOK
<1>2. /\ file' = [state |-> "torn", cookies |-> {}]
      /\ mine'[r] = LwpJar(r) /\ pc'[r] = "create" /\ skip' = skip
      /\ UNCHANGED <<got, writing, globalJar, content>>
  BY <1>1, <1>k DEF CreateFile, Goto
<1>3. Received' = {}
  BY <1>2, <1>a, ReceivedMore, NothingYet DEF SeqBefore, CreateFile
<1>4. Kept(Received') = {}
  BY <1>3 DEF Kept
<1>5. SeqAt(r)' /\ UsesCookies(r)
  <2>1. UsesCookies(r)
    BY <1>k DEF UsesCookies, JarAt, Ended
  <2> QED
    BY <1>2, <1>3, <1>4, <1>k, <2>1, Jars DEF SeqAt, Before, After, Holds
<1>6. SeqJar(r)' /\ SeqFile'
  BY <1>2, <1>3, <1>4 DEF SeqJar, SeqFile, Holds
<1> QED
  BY <1>a, <1>5, <1>6, SeqFrame

LEMMA SeqFill ==
    ASSUME SeqBefore, [Next]_vars, NEW r \in Requests, FillFile(r)
    PROVE  SeqInv'
<1>a. GetCookie(r)
  BY DEF GetCookie
<1>k. /\ pc \in [Requests -> Places]
      /\ Home(r)' = Home(r) /\ mode' = mode
      /\ SeqJar(r) /\ (UsesCookies(r) => SeqAt(r))
      /\ JarAt(r) /\ pc[r] = "create"
      /\ (NoneWithout' => NoneWithout)
  BY <1>a, SeqKnown DEF FillFile
<1>2. /\ file'.state = "ok" /\ pc'[r] = "publish"
      /\ UNCHANGED <<mine, skip, got, writing, globalJar, content>>
  BY <1>k DEF FillFile, Goto, Overwrite, perRequest
<1>3. UsesCookies(r)
  BY <1>k DEF UsesCookies, JarAt, Ended
<1>4. Received' = {} /\ Kept(Received') = {} /\ Received = {}
  BY <1>2, <1>3, <1>a, <1>k, ReceivedMore DEF SeqBefore, SeqAt, Kept
<1>5. SeqAt(r)'
  BY <1>2, <1>3, <1>4, <1>k DEF SeqAt, Before, After, Holds
<1>6. SeqJar(r)' /\ SeqFile'
  BY <1>2, <1>4, <1>k DEF SeqJar, SeqFile, Holds
<1> QED
  BY <1>a, <1>5, <1>6, SeqFrame

LEMMA SeqPublish ==
    ASSUME SeqBefore, [Next]_vars, NEW r \in Requests, PublishJar(r)
    PROVE  SeqInv'
<1>a. GetCookie(r)
  BY DEF GetCookie
<1>k. /\ pc \in [Requests -> Places]
      /\ Home(r)' = Home(r) /\ mode' = mode /\ Home(r) \in Processes
      /\ (UsesCookies(r) => SeqAt(r)) /\ SeqFile
      /\ JarAt(r) /\ pc[r] = "publish"
      /\ globalJar \in [Processes -> FileJars \cup {NoJar}]
      /\ (NoneWithout' => NoneWithout)
  BY <1>a, SeqKnown DEF PublishJar
<1>2. /\ globalJar'[Home(r)] = mine[r] /\ pc'[r] = "prepare"
      /\ UNCHANGED <<mine, skip, got, writing, file, content>>
  BY <1>k DEF PublishJar, Goto, perRequest
<1>3. Received' = Received
  BY <1>2, <1>a, ReceivedMore DEF SeqBefore
<1>4. UsesCookies(r) => SeqAt(r)'
  BY <1>2, <1>3, <1>k DEF SeqAt, Before, After, Holds
<1>5. SeqJar(r)'
  <2>1. CASE UsesCookies(r)
    BY <1>2, <1>3, <1>k, <2>1, Jars DEF SeqAt, SeqJar, Holds
  <2>2. CASE ~UsesCookies(r)
    <3>1. mode[r].noCookie /\ mine[r] = NoJar
      BY <1>k, <2>2 DEF UsesCookies, JarAt, Ended, Before
    <3>2. ~NoneWithout'
      BY <1>2, <1>k, <3>1 DEF NoneWithout
    <3> QED
      BY <1>2, <1>k, <3>1, <3>2 DEF SeqJar
  <2> QED
    BY <2>1, <2>2
<1>6. SeqFile'
  BY <1>2, <1>3, <1>k DEF SeqFile
<1> QED
  BY <1>a, <1>4, <1>5, <1>6, SeqFrame

\* An answer, the last one or a redirect, puts its cookies where r's are.
LEMMA SeqReceive ==
    ASSUME SeqBefore, [Next]_vars, NEW r \in Requests, FollowRedirect(r) \/ ReceiveAnswer(r)
    PROVE  SeqInv'
<1>a. GetResponse(r)
  BY DEF GetResponse
<1>k. /\ pc \in [Requests -> Places]
      /\ Home(r)' = Home(r) /\ mode' = mode /\ Home(r) \in Processes
      /\ (UsesCookies(r) => SeqAt(r)) /\ SeqFile /\ SeqJar(r)
      /\ JarAt(r) /\ pc[r] = "send"
      /\ globalJar \in [Processes -> FileJars \cup {NoJar}]
      /\ content \in [JarIds -> SUBSET Cookies]
      /\ got \in [Requests -> SUBSET Cookies]
      /\ (NoneWithout' => NoneWithout)
  BY <1>a, SeqKnown DEF FollowRedirect, ReceiveAnswer
<1>1. PICK C : Receive(r, C)
  BY DEF FollowRedirect, ReceiveAnswer
<1>2. /\ pc'[r] \in {"send", "check"}
      /\ got'[r] = got[r] \cup C
      /\ UNCHANGED <<mine, skip, writing, globalJar, file>>
  BY <1>1, <1>k DEF FollowRedirect, ReceiveAnswer, Goto, Receive
<1>3. Received' = Received
  BY <1>2, <1>a, ReceivedMore DEF SeqBefore
<1>4. /\ \A j \in JarIds : content[j] \subseteq content'[j]
      /\ ~mode[r].retry => content'[SessionJar(r)] = content[SessionJar(r)] \cup C
  <2>1. SessionJar(r) \in JarIds
    BY <1>k, SessionJarType DEF SeqBefore, After
  <2> QED
    BY <1>1, <1>k, <2>1 DEF Receive
<1>5. UsesCookies(r) => SeqAt(r)'
  <2> SUFFICES ASSUME UsesCookies(r) PROVE SeqAt(r)'
    OBVIOUS
  <2>1. mine[r] \in FileJars /\ mine[r] \in JarIds /\ Holds(content[mine[r]])
    BY <1>k, Jars DEF SeqAt, After
  <2>2. SessionJar(r) = mine[r]
    <3>1. Used.pool = 1
      BY DEF SeqBefore, Sequential
    <3> QED
      BY <1>k, <3>1 DEF SeqBefore, IInv, OneInv, UsesCookies, SessionJar, After
  <2>3. /\ Kept(Received') \subseteq content'[mine[r]]
        /\ NoneWithout' => Received' \subseteq content'[mine[r]]
    BY <1>3, <1>4, <1>k, <2>1 DEF Holds
  <2>4. ~mode[r].retry => got'[r] \subseteq content'[mine[r]]
    BY <1>2, <1>4, <1>k, <2>2 DEF SeqAt
  <2> QED
    BY <1>2, <1>k, <2>1, <2>3, <2>4 DEF SeqAt, Before, After, Holds
<1>6. SeqJar(r)'
  <2>1. CASE globalJar[Home(r)] = NoJar
    BY <1>2, <1>3, <1>k, <2>1 DEF SeqJar
  <2>2. CASE globalJar[Home(r)] # NoJar
    <3>1. globalJar[Home(r)] \in JarIds
      BY <1>k, <2>2, Jars
    <3> QED
      BY <1>2, <1>3, <1>4, <1>k, <2>2, <3>1 DEF SeqJar, Holds
  <2> QED
    BY <2>1, <2>2
<1>7. SeqFile'
  BY <1>2, <1>3, <1>k DEF SeqFile
<1> QED
  BY <1>a, <1>5, <1>6, <1>7, SeqFrame

\* A request that uses cookies goes on to save them; another leaves nothing
\* behind.
LEMMA SeqCheck ==
    ASSUME SeqBefore, [Next]_vars, NEW r \in Requests, CheckSave(r)
    PROVE  SeqInv'
<1>a. GetResponse(r)
  BY DEF GetResponse
<1>k. /\ pc \in [Requests -> Places]
      /\ Home(r)' = Home(r) /\ mode' = mode
      /\ (UsesCookies(r) => SeqAt(r)) /\ SeqFile /\ SeqJar(r)
      /\ JarAt(r) /\ pc[r] = "check"
      /\ (NoneWithout' => NoneWithout)
  BY <1>a, SeqKnown DEF CheckSave
<1>1. UNCHANGED <<mine, skip, writing, globalJar, file, got, content>>
  BY DEF CheckSave, perRequest, shared
<1>2. CASE UsesCookies(r)
  <2>1. SessionJar(r) = mine[r]
    <3>1. Used.pool = 1
      BY DEF SeqBefore, Sequential
    <3> QED
      BY <1>k, <1>2, <3>1 DEF SeqBefore, IInv, OneInv, UsesCookies, SessionJar, After
  <2>2. pc'[r] = "save"
    BY <1>k, <1>2, <2>1 DEF CheckSave, SeqAt, Goto, After
  <2>3. Received' = Received
    BY <2>2, <1>a, ReceivedMore DEF SeqBefore
  <2>4. SeqAt(r)'
    BY <1>1, <1>2, <1>k, <2>2, <2>3 DEF SeqAt, Before, After, Holds
  <2> QED
    BY <1>a, <1>1, <2>2, <2>4, SeqSame
<1>3. CASE ~UsesCookies(r)
  <2>1. \A c \in Received' : c \in Received
    BY <1>a, <1>3, ReceivedMore DEF SeqBefore
  <2>2. SeqJar(r)'
    BY <1>1, <1>k, <2>1 DEF SeqJar, Holds, Kept
  <2>3. SeqFile'
    BY <1>1, <1>k, <2>1 DEF SeqFile, Kept
  <2> QED
    BY <1>a, <1>3, <2>2, <2>3, SeqFrame
<1> QED
  BY <1>2, <1>3

LEMMA SeqOpen ==
    ASSUME SeqBefore, [Next]_vars, NEW r \in Requests, OpenForSave(r)
    PROVE  SeqInv'
<1>a. GetResponse(r)
  BY DEF GetResponse
<1>k. /\ pc \in [Requests -> Places] /\ DOMAIN writing = Requests
      /\ Home(r)' = Home(r) /\ mode' = mode
      /\ (UsesCookies(r) => SeqAt(r)) /\ SeqJar(r)
      /\ JarAt(r) /\ pc[r] = "save"
      /\ (NoneWithout' => NoneWithout)
  BY <1>a, SeqKnown DEF OpenForSave
<1>1. UsesCookies(r)
  BY <1>k DEF UsesCookies, JarAt, Ended
<1>2. SessionJar(r) = mine[r] /\ mine[r] \in FileJars
  <2>1. Used.pool = 1
    BY DEF SeqBefore, Sequential
  <2> QED
    BY <1>k, <1>1, <2>1 DEF SeqBefore, IInv, OneInv, UsesCookies, SessionJar, SeqAt, After
<1>3. ~Used.diskFails
  BY DEF SeqBefore, Sequential
<1>4. /\ file'.state = "torn" /\ pc'[r] = "write"
      /\ writing'[r].jar = mine[r] /\ writing'[r].seen = content[mine[r]]
      /\ UNCHANGED <<mine, skip, globalJar, got, content>>
  BY <1>2, <1>3, <1>k DEF OpenForSave, Goto
<1>5. Received' = Received
  BY <1>4, <1>a, ReceivedMore DEF SeqBefore
<1>6. SeqAt(r)'
  BY <1>1, <1>4, <1>5, <1>k DEF SeqAt, Before, After, Holds
<1>7. SeqJar(r)' /\ SeqFile'
  BY <1>4, <1>5, <1>k DEF SeqJar, SeqFile, Holds
<1> QED
  BY <1>a, <1>6, <1>7, SeqFrame

\* The save ends: the file holds all kept cookies, those of r too.
LEMMA SeqWrite ==
    ASSUME SeqBefore, [Next]_vars, NEW r \in Requests, WriteJar(r)
    PROVE  SeqInv'
<1>a. GetResponse(r)
  BY DEF GetResponse
<1>k. /\ pc \in [Requests -> Places]
      /\ Home(r)' = Home(r) /\ mode' = mode
      /\ (UsesCookies(r) => SeqAt(r))
      /\ JarAt(r) /\ pc[r] = "write"
      /\ (NoneWithout' => NoneWithout)
  BY <1>a, SeqKnown DEF WriteJar
<1>1. UsesCookies(r)
  BY <1>k DEF UsesCookies, JarAt, Ended
<1> DEFINE all == content[mine[r]]
<1>2. /\ writing[r].jar = mine[r] /\ writing[r].seen = all /\ Holds(all)
      /\ globalJar[Home(r)] = mine[r] /\ mine[r] # NoJar
      /\ ~mode[r].retry => got[r] \subseteq all
  BY <1>1, <1>k, Jars DEF SeqAt, After
<1>3. /\ file'.state = "ok" /\ Kept(all) \subseteq file'.cookies
      /\ pc'[r] \in {"done", "failed"}
      /\ UNCHANGED <<mine, skip, globalJar, got, content, writing>>
  BY <1>2, <1>k DEF WriteJar, Overwrite, Goto, Outcome, perRequest
<1>4. \A c \in Received' : c \in Received \/ c \in all
  BY <1>2, <1>3, <1>a, ReceivedMore DEF SeqBefore
<1>5. Kept(Received') \subseteq all /\ (NoneWithout' => Received' \subseteq all)
  BY <1>2, <1>4, <1>k, HoldsMore
<1>6. SeqAt(r)'
  BY <1>1, <1>2, <1>3, <1>k DEF SeqAt, Before, After
<1>7. SeqJar(r)'
  BY <1>2, <1>3, <1>5, <1>k DEF SeqJar, Holds
<1>8. SeqFile'
  BY <1>3, <1>5 DEF SeqFile, Kept
<1> QED
  BY <1>a, <1>6, <1>7, <1>8, SeqFrame

LEMMA SeqStep == IInv /\ FileReadable /\ SeqInv /\ [Next]_vars => SeqInv'
<1> SUFFICES ASSUME IInv, FileReadable, SeqInv, [Next]_vars, Sequential'
             PROVE  SeqInv'
  BY DEF SeqInv
<1>1. SeqBefore
  BY AskedStays DEF SeqBefore, Sequential
<1>2. ASSUME NEW p \in Processes, Crash(p) PROVE FALSE
  BY <1>1, <1>2, SameHome DEF SeqBefore, IInv, TypeOK, Crash
<1>4. ASSUME NEW r \in Requests, FillFileFails(r) \/ WriteJarFails(r) PROVE FALSE
  BY <1>1, <1>4, SameHome DEF SeqBefore, IInv, TypeOK, FillFileFails, WriteJarFails
<1>3. CASE UNCHANGED vars
  <2>1. /\ Received' = Received /\ NoneWithout' = NoneWithout
        /\ \A r \in Requests : UsesCookies(r)' <=> UsesCookies(r)
        /\ Sequential
    BY <1>1, <1>3 DEF vars, Received, UsesCookies, NoneWithout, SeqBefore
  <2> QED
    BY <1>3, <2>1 DEF vars, SeqInv, SeqJar, SeqFile, SeqAt, Holds
<1> QED
  BY <1>1, <1>2, <1>3, <1>4, SeqQuiet, SeqLoad, SeqCreate, SeqFill, SeqPublish, SeqReceive,
     SeqCheck, SeqOpen, SeqWrite DEF Next, GetCookie, GetResponse

LEMMA SeqInvariance == Spec => [](IInv /\ FileReadable /\ SeqInv)
BY SeqInit, SeqStep, Invariance, FileIsReadable, PTL DEF Spec

\* With one request after the other and a disk that works, a cookie with an
\* expiry is in the file from the end of the request that received it, for any
\* number of requests of any modes.
THEOREM KeptCookiesAreSaved == Spec => []KeptCookiesSurvive
<1>1. SeqInv => KeptCookiesSurvive
  BY DEF SeqInv, SeqFile, KeptCookiesSurvive
<1> QED
  BY <1>1, SeqInvariance, PTL

\* And a later request sends it; a cookie without an expiry too, as long as
\* no request without cookies came in between.
THEOREM CookiesAreSent == Spec => CookiesSent
<1> DEFINE Sends ==
        Sequential => \A r \in Requests :
          (pc[r] = "prepare" /\ pc'[r] = "assign" /\ UsesCookies(r)) =>
              LET noneWithout == \A q \in Requests : mode[q].noCookie => pc[q] = "queued"
              IN (IF noneWithout THEN Received ELSE Kept(Received)) \subseteq sent'[r]
<1>1. IInv /\ SeqInv /\ [Next]_vars => Sends
  <2> SUFFICES ASSUME IInv, SeqInv, [Next]_vars, Sequential, NEW r \in Requests,
                      pc[r] = "prepare", pc'[r] = "assign", UsesCookies(r)
               PROVE  (IF NoneWithout THEN Received ELSE Kept(Received)) \subseteq sent'[r]
    BY DEF NoneWithout
  <2>1. PrepareCookies(r)
    <3>1. ASSUME NEW q \in Requests \ {r}, Start(q) \/ GetCookie(q) \/ GetResponse(q)
          PROVE  FALSE
      BY <3>1, OthersStay
    <3>2. ASSUME NEW p \in Processes, Crash(p) PROVE FALSE
      BY <3>2 DEF Crash
    <3>3. ~UNCHANGED vars
      BY DEF vars
    <3>4. Start(r) \/ GetCookie(r) \/ GetResponse(r)
      BY <3>1, <3>2, <3>3 DEF Next
    <3> QED
      BY <3>4 DEF Start, GetCookie, GetResponse, LookForJar, ReuseJar, LoadJar, CreateFile,
         FillFile, FillFileFails, PublishJar, AssignCookies, FollowRedirect, ReceiveAnswer,
         SendFails, CheckSave, OpenForSave, WriteJar, WriteJarFails
  <2>2. mine[r] # NoJar /\ Holds(content[mine[r]])
    BY Jars DEF SeqInv, SeqAt
  <2>3. sent'[r] = content[mine[r]]
    BY <2>1, <2>2 DEF PrepareCookies, IInv, TypeOK
  <2> QED
    BY <2>2, <2>3 DEF Holds
<1>2. Spec => [][Sends]_vars
  BY <1>1, SeqInvariance, PTL DEF Spec
<1> QED
  BY <1>2 DEF CookiesSent
=============================================================================
