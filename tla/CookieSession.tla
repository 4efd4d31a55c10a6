---------------------------- MODULE CookieSession ----------------------------
(***************************************************************************)
(* How the requests of a dothttp process share cookies                     *)
(* (RequestBase.get_cookie, get_session, get_request and                   *)
(* RequestCompiler.get_response in dothttp/parse/request_base.py).         *)
(*                                                                         *)
(* A process has one requests.Session and one cookie jar, both class       *)
(* attributes; its pool threads use them without a lock, and several       *)
(* processes (language servers, command lines) share the jar file.  One    *)
(* step of the model is one access to something shared: the class          *)
(* attribute, the session's cookies, a jar's content, the file.            *)
(*                                                                         *)
(* A jar is named after the request that made it: "lwp" is a file jar made *)
(* by get_cookie, "tmp" the throw-away jar prepare_cookies makes when it   *)
(* is given none.  A cookie is named after the request that received it;   *)
(* "kept" ones have an expiry, the others are session cookies, which       *)
(* LWPCookieJar.save leaves out.  All requests go to one site, so every    *)
(* cookie of a jar is sent.                                                *)
(***************************************************************************)
EXTENDS Naturals, FiniteSets

CONSTANTS
    Requests,    \* the requests handled
    Processes,   \* the processes that handle them
    Setups,      \* the ways dothttp is used: names mapped to SetupType
    NoJar        \* Python's None in the place of a jar

\* noCookie: --no-cookie or "nocookie"; clear: @clear; retry: @retry.
AllModes == [noCookie : BOOLEAN, clear : BOOLEAN, retry : BOOLEAN]

\* Which requests there are and in which modes they may come; which process
\* handles which request, and how many at the same time; whether opening the
\* jar file and writing to it may fail; and a bound on the processes killed.
SetupType ==
    [requests : SUBSET Requests, modes : SUBSET [Requests -> AllModes],
     home : [Requests -> Processes], pool : Nat \ {0},
     diskFails : BOOLEAN, maxCrashes : Nat]

FileJars == {"lwp"} \X Requests
JarIds == {"lwp", "tmp"} \X Requests

LwpJar(r) == <<"lwp", r>>
TmpJar(r) == <<"tmp", r>>

Cookies == [owner : Requests, kept : BOOLEAN]

Owners(C) == {c.owner : c \in C}
Kept(C) == {c \in C : c.kept}

ASSUME CookieSessionAssumption ==
    /\ IsFiniteSet(Requests)
    /\ Setups \in [DOMAIN Setups -> SetupType]
    /\ NoJar \notin JarIds

Ended == {"done", "failed", "killed"}

Places ==
    {"queued", "look", "reuse", "open", "create", "publish", "prepare",
     "assign", "send", "check", "save", "write"} \cup Ended

VARIABLES
    setup,      \* the name of the setup, chosen once
    mode,       \* mode[r]: how r was asked for
    pc,         \* pc[r]: where the thread that handles r is
    skip,       \* skip[r]: args.no_cookie of r, which get_cookie may set
    mine,       \* mine[r]: the jar r got; request._cookies from "assign" on
    sent,       \* sent[r]: the cookies r sent
    got,        \* got[r]: the cookies r received
    bound,      \* bound[r]: whether get_response has a resp to return
    writing,    \* writing[r]: the jar r saves and its content at the start
    content,    \* content[j]: the cookies in jar j
    globalJar,  \* globalJar[p]: RequestBase.global_cookie_jar
    session,    \* session[p]: global_session.cookies
    file,       \* the jar file
    crashes,    \* processes killed so far
    spoilt      \* a write to the opened jar file has failed

perRequest == <<setup, mode, skip, mine, sent, got, bound, writing>>
shared == <<content, globalJar, session, file, crashes, spoilt>>
vars == <<setup, mode, pc, skip, mine, sent, got, bound, writing,
          content, globalJar, session, file, crashes, spoilt>>

\* "torn" is a file cookie.load() refuses: truncated, or cut in its text.
FileState == [state : {"absent", "torn", "ok"}, cookies : SUBSET Cookies]

Used == Setups[setup]

\* The process that handles r.
Home(r) == Used.home[r]

Goto(r, place) == pc' = [pc EXCEPT ![r] = place]

Busy(p) == {r \in Requests : Home(r) = p /\ pc[r] \notin Ended \cup {"queued"}}

\* Wrong variant: @clear does not give a session of its own.
SessionJarShared(r) == IF session[Home(r)] = NoJar THEN mine[r] ELSE session[Home(r)]

\* The cookies of the session r uses: a session of its own under @clear,
\* the process's session otherwise.
SessionJar(r) == IF mode[r].clear THEN mine[r] ELSE session[Home(r)]

-----------------------------------------------------------------------------
Init ==
    /\ setup \in DOMAIN Setups
    /\ mode \in Used.modes
    /\ pc = [r \in Requests |-> "queued"]
    /\ skip = [r \in Requests |-> mode[r].noCookie]
    /\ mine = [r \in Requests |-> NoJar]
    /\ sent = [r \in Requests |-> {}]
    /\ got = [r \in Requests |-> {}]
    /\ bound = [r \in Requests |-> FALSE]
    /\ writing = [r \in Requests |-> [jar |-> NoJar, seen |-> {}]]
    /\ content = [j \in JarIds |-> {}]
    /\ globalJar = [p \in Processes |-> NoJar]
    /\ session = [p \in Processes |-> NoJar]
    /\ file = [state |-> "absent", cookies |-> {}]
    /\ crashes = 0
    /\ spoilt = FALSE

\* A thread starts on r.  get_request asks for no jar under @clear, and
\* get_cookie has none to look for under no_cookie.
Start(r) ==
    /\ pc[r] = "queued" /\ r \in Used.requests
    /\ Cardinality(Busy(Home(r))) < Used.pool
    /\ Goto(r, IF mode[r].clear THEN "prepare"
               ELSE IF skip[r] THEN "publish" ELSE "look")
    /\ UNCHANGED <<perRequest, shared>>

\* "if RequestBase.global_cookie_jar": an empty jar is as false as None.
LookForJar(r) ==
    LET jar == globalJar[Home(r)] IN
    /\ pc[r] = "look"
    /\ Goto(r, IF jar # NoJar /\ content[jar] # {} THEN "reuse" ELSE "open")
    /\ UNCHANGED <<perRequest, shared>>

\* "return RequestBase.global_cookie_jar" reads the attribute again.
ReuseJar(r) ==
    /\ pc[r] = "reuse"
    /\ mine' = [mine EXCEPT ![r] = globalJar[Home(r)]]
    /\ Goto(r, "prepare")
    /\ UNCHANGED <<setup, mode, skip, sent, got, bound, writing, shared>>

\* Wrong variant: the jar that could not be loaded is not given up.
WithoutCookiesKeepingJar(r) ==
    /\ mine' = [mine EXCEPT ![r] = LwpJar(r)]
    /\ skip' = [skip EXCEPT ![r] = TRUE]
    /\ Goto(r, "publish")

\* The except branch of get_cookie: r goes on as if it had no_cookie.
WithoutCookies(r) ==
    /\ mine' = [mine EXCEPT ![r] = NoJar]
    /\ skip' = [skip EXCEPT ![r] = TRUE]
    /\ Goto(r, "publish")

\* Wrong variant: a jar is made but not loaded.
LoadJarForgotten(r) ==
    /\ pc[r] = "open"
    /\ file.state # "absent"
    /\ mine' = [mine EXCEPT ![r] = LwpJar(r)]
    /\ Goto(r, "publish")
    /\ UNCHANGED <<setup, mode, skip, sent, got, bound, writing, shared>>

\* The jar file exists: cookie.load(), which refuses a torn file.
LoadJar(r) ==
    /\ pc[r] = "open"
    /\ \/ /\ file.state = "ok"
          /\ content' = [content EXCEPT ![LwpJar(r)] = file.cookies]
          /\ mine' = [mine EXCEPT ![r] = LwpJar(r)]
          /\ Goto(r, "publish")
          /\ UNCHANGED skip
       \/ /\ file.state = "torn"
          /\ WithoutCookies(r)
          /\ UNCHANGED content
    /\ UNCHANGED <<setup, mode, sent, got, bound, writing, globalJar, session, file, crashes, spoilt>>

\* The jar file does not exist: cookie.save() opens it ...
CreateFile(r) ==
    /\ pc[r] = "open"
    /\ file.state = "absent"
    /\ \/ /\ file' = [state |-> "torn", cookies |-> {}]
          /\ mine' = [mine EXCEPT ![r] = LwpJar(r)]
          /\ Goto(r, "create")
          /\ UNCHANGED skip
       \/ /\ Used.diskFails
          /\ WithoutCookies(r)
          /\ UNCHANGED file
    /\ UNCHANGED <<setup, mode, sent, got, bound, writing, content, globalJar, session, crashes, spoilt>>

\* What the file may hold once a save that truncated it writes C: lines of
\* another save that ended in between may stay behind the shorter text.
Overwrite(C) ==
    \E D \in SUBSET file.cookies :
        file' = [state |-> "ok", cookies |-> Kept(C) \cup D]

\* ... and writes a jar without cookies.
FillFile(r) ==
    /\ pc[r] = "create"
    /\ Overwrite({})
    /\ Goto(r, "publish")
    /\ UNCHANGED <<perRequest, content, globalJar, session, crashes, spoilt>>

\* Text that cannot be written leaves a torn file, or, if the disk took the
\* first lines, some of the cookies.
Spoil(C) ==
    /\ \/ file' = [state |-> "torn", cookies |-> {}]
       \/ \E K \in SUBSET C : Overwrite(K)
    /\ spoilt' = TRUE

\* The write fails after the file was made: r goes on without cookies.
FillFileFails(r) ==
    /\ pc[r] = "create"
    /\ Used.diskFails
    /\ Spoil({})
    /\ WithoutCookies(r)
    /\ UNCHANGED <<setup, mode, sent, got, bound, writing, content, globalJar, session, crashes>>

\* "RequestBase.global_cookie_jar = self._cookie = cookie".
PublishJar(r) ==
    /\ pc[r] = "publish"
    /\ globalJar' = [globalJar EXCEPT ![Home(r)] = mine[r]]
    /\ Goto(r, "prepare")
    /\ UNCHANGED <<perRequest, content, session, file, crashes, spoilt>>

\* Wrong variant: the header is made before the jar's content is there.
PrepareCookiesUnsent(r) ==
    /\ pc[r] = "prepare"
    /\ mine' = [mine EXCEPT ![r] = IF @ = NoJar THEN TmpJar(r) ELSE @]
    /\ Goto(r, "assign")
    /\ UNCHANGED <<setup, mode, skip, sent, got, bound, writing, shared>>

\* prepare_cookies: None or {} becomes a jar of its own; the Cookie header
\* is the jar's content.
PrepareCookies(r) ==
    LET jar == IF mine[r] = NoJar THEN TmpJar(r) ELSE mine[r] IN
    /\ pc[r] = "prepare"
    /\ mine' = [mine EXCEPT ![r] = jar]
    /\ sent' = [sent EXCEPT ![r] = content[jar]]
    /\ Goto(r, "assign")
    /\ UNCHANGED <<setup, mode, skip, got, bound, writing, shared>>

\* Wrong variant: only a request that uses cookies sets the session's.
AssignCookiesIfUsed(r) ==
    /\ pc[r] = "assign"
    /\ session' = IF mode[r].clear \/ (skip[r] /\ session[Home(r)] # NoJar) THEN session
                  ELSE [session EXCEPT ![Home(r)] = mine[r]]
    /\ Goto(r, "send")
    /\ UNCHANGED <<perRequest, content, globalJar, file, crashes, spoilt>>

\* "session.cookies = request._cookies".
AssignCookies(r) ==
    /\ pc[r] = "assign"
    /\ session' = IF mode[r].clear THEN session
                  ELSE [session EXCEPT ![Home(r)] = mine[r]]
    /\ Goto(r, "send")
    /\ UNCHANGED <<perRequest, content, globalJar, file, crashes, spoilt>>

\* The cookies an answer to r may set.
Answers(r) == {{}} \cup {{[owner |-> r, kept |-> k]} : k \in BOOLEAN}

\* An answer with cookies C reaches session.send, which puts them into the
\* cookies the session has by now; a retry adapter leaves them alone.
Receive(r, C) ==
    /\ got' = [got EXCEPT ![r] = @ \cup C]
    /\ content' = IF mode[r].retry THEN content
                  ELSE [content EXCEPT ![SessionJar(r)] = @ \cup C]

\* The answer is a redirect, which session.send follows: the next hop has
\* r's cookies, the session's and the new ones.
FollowRedirect(r) ==
    /\ pc[r] = "send"
    /\ ~mode[r].retry
    /\ \E C \in Answers(r) \ {{}} :
          /\ Receive(r, C)
          /\ sent' = [sent EXCEPT ![r] =
                         @ \cup content[mine[r]] \cup content[SessionJar(r)] \cup C]
    /\ UNCHANGED <<setup, mode, pc, skip, mine, bound, writing, globalJar, session, file, crashes, spoilt>>

\* The last answer.
ReceiveAnswer(r) ==
    /\ pc[r] = "send"
    /\ \E C \in Answers(r) : Receive(r, C)
    /\ bound' = [bound EXCEPT ![r] = TRUE]
    /\ Goto(r, "check")
    /\ UNCHANGED <<setup, mode, skip, mine, sent, writing, globalJar, session, file, crashes, spoilt>>

\* send raises.  An SSLError that is not about verification is swallowed:
\* the saving goes on without a response.
SendFails(r) ==
    /\ pc[r] = "send"
    /\ \E place \in {"check", "failed"} : Goto(r, place)
    /\ UNCHANGED <<perRequest, shared>>

\* Returning resp fails if there is none.
Outcome(r) == IF bound[r] THEN "done" ELSE "failed"

\* "if not self.args.no_cookie and isinstance(session.cookies, ...)".
CheckSave(r) ==
    /\ pc[r] = "check"
    /\ Goto(r, IF ~skip[r] /\ SessionJar(r) \in FileJars THEN "save"
               ELSE Outcome(r))
    /\ UNCHANGED <<perRequest, shared>>

\* "session.cookies.save()" reads session.cookies again; opening truncates
\* the file.  Whatever goes wrong is swallowed.
OpenForSave(r) ==
    LET jar == SessionJar(r) IN
    /\ pc[r] = "save"
    /\ \/ /\ jar \in FileJars
          /\ file' = [state |-> "torn", cookies |-> {}]
          /\ writing' = [writing EXCEPT ![r] = [jar |-> jar, seen |-> content[jar]]]
          /\ Goto(r, "write")
       \/ /\ jar \notin FileJars \/ Used.diskFails
          /\ Goto(r, Outcome(r))
          /\ UNCHANGED <<writing, file>>
    /\ UNCHANGED <<setup, mode, skip, mine, sent, got, bound, content, globalJar, session, crashes, spoilt>>

\* Wrong variant: a save that raises writes nothing at all.
WriteJarOrNothing(r) ==
    LET jar == writing[r].jar IN
    /\ pc[r] = "write"
    /\ \/ Overwrite(content[jar])
       \/ content[jar] # writing[r].seen /\ UNCHANGED file
    /\ Goto(r, Outcome(r))
    /\ UNCHANGED <<perRequest, content, globalJar, session, crashes, spoilt>>

\* The jar's kept cookies are written.  A jar that grows while it is written
\* raises, which leaves the file with its first line only.
WriteJar(r) ==
    LET jar == writing[r].jar IN
    /\ pc[r] = "write"
    /\ \/ Overwrite(content[jar])
       \/ /\ content[jar] # writing[r].seen
          /\ Overwrite({})
    /\ Goto(r, Outcome(r))
    /\ UNCHANGED <<perRequest, content, globalJar, session, crashes, spoilt>>

\* The write fails after the file was truncated; the error is swallowed.
WriteJarFails(r) ==
    /\ pc[r] = "write"
    /\ Used.diskFails
    /\ Spoil(content[writing[r].jar])
    /\ Goto(r, Outcome(r))
    /\ UNCHANGED <<perRequest, content, globalJar, session, crashes>>

\* A process is killed and started again; its jars and its session go with
\* it, the file stays as it is.
Crash(p) ==
    /\ crashes < Used.maxCrashes
    /\ Busy(p) # {}
    /\ crashes' = crashes + 1
    /\ pc' = [r \in Requests |-> IF r \in Busy(p) THEN "killed" ELSE pc[r]]
    /\ globalJar' = [globalJar EXCEPT ![p] = NoJar]
    /\ session' = [session EXCEPT ![p] = NoJar]
    /\ UNCHANGED <<perRequest, content, file, spoilt>>

GetCookie(r) ==
    \/ LookForJar(r) \/ ReuseJar(r) \/ LoadJar(r)
    \/ CreateFile(r) \/ FillFile(r) \/ FillFileFails(r) \/ PublishJar(r)

GetResponse(r) ==
    \/ PrepareCookies(r) \/ AssignCookies(r)
    \/ FollowRedirect(r) \/ ReceiveAnswer(r) \/ SendFails(r)
    \/ CheckSave(r) \/ OpenForSave(r) \/ WriteJar(r) \/ WriteJarFails(r)

Next ==
    \/ \E r \in Requests : Start(r) \/ GetCookie(r) \/ GetResponse(r)
    \/ \E p \in Processes : Crash(p)

Spec == Init /\ [][Next]_vars

-----------------------------------------------------------------------------
TypeOK ==
    /\ setup \in DOMAIN Setups
    /\ mode \in [Requests -> AllModes]
    /\ pc \in [Requests -> Places]
    /\ skip \in [Requests -> BOOLEAN]
    /\ mine \in [Requests -> JarIds \cup {NoJar}]
    /\ sent \in [Requests -> SUBSET Cookies]
    /\ got \in [Requests -> SUBSET Cookies]
    /\ bound \in [Requests -> BOOLEAN]
    /\ writing \in [Requests -> [jar : FileJars \cup {NoJar}, seen : SUBSET Cookies]]
    /\ content \in [JarIds -> SUBSET Cookies]
    /\ globalJar \in [Processes -> FileJars \cup {NoJar}]
    /\ session \in [Processes -> JarIds \cup {NoJar}]
    /\ file \in FileState
    /\ crashes \in 0..Used.maxCrashes
    /\ spoilt \in BOOLEAN

\* The cookies r receives stay in r's own throw-away jar: no other jar, not
\* the file, no other request gets them, and r sends no one else's.
Isolated(r) ==
    /\ \A j \in JarIds : r \in Owners(content[j]) => j = TmpJar(r)
    /\ r \notin Owners(file.cookies)
    /\ Owners(sent[r]) \subseteq {r}
    /\ \A q \in Requests : r \in Owners(sent[q]) => q = r

\* A request marked @clear is isolated from all the others, whatever runs
\* beside it, in this process or another (request_base.py:127-130, 144-147):
\* it shares neither the session nor the jar.
ClearIsolated == \A r \in Requests : mode[r].clear => Isolated(r)

\* With one request at a time in each process, a no_cookie request is
\* isolated as well: its jar becomes the session's jar only while nobody
\* else uses the session (request_base.py:100-102, 123, 632).
NoCookieIsolated ==
    Used.pool = 1 => \A r \in Requests : mode[r].noCookie => Isolated(r)

\* The jar file is unreadable only in the middle of a save, or after a
\* process was killed in the middle of one or its text could not be written:
\* a save that ends well leaves a file the next process can load, whatever
\* other saves truncate and fill in between (request_base.py:110-113, 717).
FileReadable ==
    file.state = "torn" =>
        crashes > 0 \/ spoilt \/ \E r \in Requests : pc[r] \in {"create", "write"}

\* No request under way has a file jar, and none is left for a later one.
NoJarInMemory ==
    /\ \A p \in Processes : globalJar[p] = NoJar
    /\ \A r \in Requests :
          \/ pc[r] \in Ended \cup {"queued", "look", "open"}
          \/ skip[r] \/ mode[r].clear

\* A torn jar file does not heal: once no process has a jar in memory, every
\* later request goes without cookies and none of them writes the file again,
\* in any process, until someone removes it (request_base.py:109-122, 715).
TornFileDisablesCookies ==
    [][NoJarInMemory /\ file.state = "torn"
          => NoJarInMemory' /\ file'.state = "torn"]_vars

-----------------------------------------------------------------------------
\* One process, one request at a time, nothing breaks: the command line, or
\* a client that waits for each answer.
Sequential ==
    /\ Used.pool = 1
    /\ Cardinality({Home(r) : r \in Used.requests}) = 1
    /\ Used.maxCrashes = 0
    /\ ~Used.diskFails

UsesCookies(r) == ~mode[r].noCookie /\ ~mode[r].clear

Received == UNION {got[q] : q \in {q \in Requests :
                       pc[q] = "done" /\ UsesCookies(q) /\ ~mode[q].retry}}

\* Sequentially, a cookie with an expiry stays on disk from the end of the
\* request that received it, whatever later requests do with the class
\* attribute and the session (request_base.py:715-719).
KeptCookiesSurvive ==
    Sequential /\ file.state = "ok" => Kept(Received) \subseteq file.cookies

\* Sequentially, a request that uses cookies sends every kept cookie of the
\* requests before it, even if a no_cookie request has reset the class
\* attribute in between, and session cookies too for as long as no request
\* with no_cookie has been handled: those live in the shared jar only
\* (request_base.py:104-113, 123, 145).
CookiesSent ==
    [][Sequential => \A r \in Requests :
          (pc[r] = "prepare" /\ pc'[r] = "assign" /\ UsesCookies(r)) =>
              LET noneWithout == \A q \in Requests : mode[q].noCookie => pc[q] = "queued"
              IN (IF noneWithout THEN Received ELSE Kept(Received)) \subseteq sent'[r]]_vars

-----------------------------------------------------------------------------
\* "Uses adapter.send() directly if retry is configured, avoiding session
\* state modification and ensuring thread-safety in concurrent environments"
\* (request_base.py:627-628).  If it did, the answer to a request that shares
\* the process with @retry requests only would go into its own jar; but a
\* @retry request assigns session.cookies like any other.
RetryIsThreadSafe ==
    \A r \in Requests :
        (/\ pc[r] = "send" /\ ~mode[r].clear /\ ~mode[r].retry
         /\ \A q \in Used.requests \ {r} : mode[q].retry)
            => session[Home(r)] = mine[r]
=============================================================================
