--------------------------- MODULE AsyncCmdServer ---------------------------
(***************************************************************************)
(* The server of --server_type async (AsyncCmdServer, server.py:176-233):  *)
(* one coroutine on an asyncio event loop reads a line, runs its handler   *)
(* and hands the answer to a pipe transport.  The loop's own callbacks,    *)
(* which take bytes from stdin and push buffered answers to stdout, run    *)
(* only while the coroutine is suspended; a handler is a plain call and    *)
(* readline suspends only if no line has arrived.                          *)
(*                                                                         *)
(* Lines are as in CmdServer, with one kind more: "long" is a line above   *)
(* the limit of the StreamReader, which makes readline raise outside the   *)
(* try statement and ends the server.                                      *)
(***************************************************************************)
EXTENDS Integers, Sequences

CONSTANTS
    N,         \* bound: the client sends at most N lines
    IdOf,      \* the id the client put into each line
    Kinds,     \* the kinds of line this instance sends
    PipeSize,  \* responses the stdout pipe holds
    MaxNoise   \* bound: errors written after the end of stdin

Lines == 1..N

AllKinds == {"invalid", "answer", "raise", "opaque", "endless", "long"}

ASSUME AsyncCmdServerAssumption ==
    /\ N \in Nat
    /\ IdOf \in [Lines -> Int]
    /\ Kinds \subseteq AllKinds
    /\ PipeSize \in Nat \ {0}
    /\ MaxNoise \in Nat

NoLine == 0

VARIABLES
    kind,     \* kind[l]: what line l is like
    sent,     \* lines the client has written to stdin
    closed,   \* the client has closed stdin
    arrived,  \* lines that are in the StreamReader
    eof,      \* the StreamReader knows of the end of stdin
    next,     \* the next line readline returns
    at,       \* where the coroutine is
    stdout,   \* responses given to the transport
    gone,     \* how many of them are in the pipe
    read,     \* how many of them the client has read
    noise     \* errors written after the end of stdin

vars == <<kind, sent, closed, arrived, eof, next, at, stdout, gone, read, noise>>

client == <<sent, closed, read>>
reader == <<arrived, eof>>
output == <<stdout, gone, noise>>

Response == [line : 0..N, id : Int, error : BOOLEAN]

\* The version at the start, and the answers no command belongs to.
Banner == [line |-> NoLine, id |-> -1, error |-> FALSE]
NotDecodable(l) == [line |-> l, id |-> 0, error |-> TRUE]

\* run(command), and the except branch that catches what json.dumps raises.
RunResult(l) ==
    IF kind[l] = "opaque" THEN NotDecodable(l)
    ELSE [line |-> l, id |-> IdOf[l], error |-> kind[l] = "raise"]

\* Wrong variant: written past the answers that wait in the transport.
WriteResultPast(r) ==
    IF gone = Len(stdout) /\ gone - read < PipeSize
    THEN stdout' = Append(stdout, r) /\ gone' = gone + 1
    ELSE /\ stdout' = SubSeq(stdout, 1, gone) \o <<r>> \o SubSeq(stdout, gone + 1, Len(stdout))
         /\ UNCHANGED gone

\* Wrong variant: text the pipe does not take at once is dropped.
WriteResultOrDrop(r) ==
    IF gone - read < PipeSize
    THEN stdout' = Append(stdout, r) /\ gone' = gone + 1
    ELSE UNCHANGED <<stdout, gone>>

\* write_result: the transport writes at once if it has no backlog and the
\* pipe has room, and keeps the text otherwise; nothing drains it.
WriteResult(r) ==
    /\ stdout' = Append(stdout, r)
    /\ gone' = IF gone = Len(stdout) /\ gone - read < PipeSize THEN gone + 1 ELSE gone

Visible(l) == \E i \in 1..read : stdout[i].line = l

-----------------------------------------------------------------------------
Init ==
    /\ kind \in [Lines -> Kinds]
    /\ sent = 0
    /\ closed = FALSE
    /\ arrived = 0
    /\ eof = FALSE
    /\ next = 1
    /\ at = "start"
    /\ stdout = <<>>
    /\ gone = 0
    /\ read = 0
    /\ noise = 0

ClientSends ==
    /\ sent < N
    /\ ~closed
    /\ sent' = sent + 1
    /\ UNCHANGED <<kind, closed, reader, next, at, output, read>>

ClientCloses ==
    /\ ~closed
    /\ closed' = TRUE
    /\ UNCHANGED <<kind, sent, reader, next, at, output, read>>

ClientReads ==
    /\ read < gone
    /\ read' = read + 1
    /\ UNCHANGED <<kind, sent, closed, reader, next, at, output>>

PublishVersion ==
    /\ at = "start"
    /\ WriteResult(Banner)
    /\ at' = "read"
    /\ UNCHANGED <<kind, client, reader, next, noise>>

\* readline has no line to return and suspends.
Suspend ==
    /\ at = "read"
    /\ next > arrived
    /\ ~eof
    /\ at' = "wait"
    /\ UNCHANGED <<kind, client, reader, next, output>>

\* The loop's reader callback: some of the bytes in stdin, or its end.
LoopReads ==
    /\ at = "wait"
    /\ \/ arrived < sent /\ arrived' \in (arrived + 1)..sent /\ UNCHANGED eof
       \/ arrived = sent /\ closed /\ ~eof /\ eof' = TRUE /\ UNCHANGED arrived
    /\ UNCHANGED <<kind, client, next, at, output>>

\* The loop's writer callback: as much of the backlog as the pipe takes.
LoopWrites ==
    /\ at = "wait"
    /\ gone < Len(stdout)
    /\ gone - read < PipeSize
    /\ gone' \in {g \in (gone + 1)..Len(stdout) : g - read <= PipeSize}
    /\ UNCHANGED <<kind, client, reader, next, at, stdout, noise>>

\* readline resumes.
Resume ==
    /\ at = "wait"
    /\ next <= arrived \/ eof
    /\ at' = "read"
    /\ UNCHANGED <<kind, client, reader, next, output>>

\* readline returns a line that get_command refuses.
RejectLine ==
    /\ at = "read"
    /\ next <= arrived
    /\ kind[next] = "invalid"
    /\ WriteResult(NotDecodable(next))
    /\ next' = next + 1
    /\ UNCHANGED <<kind, client, reader, at, noise>>

\* readline returns a command, whose handler starts.
TakeLine ==
    /\ at = "read"
    /\ next <= arrived
    /\ kind[next] \notin {"invalid", "long"}
    /\ next' = next + 1
    /\ at' = "run"
    /\ UNCHANGED <<kind, client, reader, output>>

\* Wrong variant: an error run has answered is answered by the loop as well.
AnswerTwice ==
    /\ at = "run"
    /\ kind[next - 1] # "endless"
    /\ LET r == RunResult(next - 1) IN
       stdout' = IF r.error THEN stdout \o <<r, r>> ELSE Append(stdout, r)
    /\ gone' = IF gone = Len(stdout) /\ gone - read < PipeSize THEN gone + 1 ELSE gone
    /\ at' = "read"
    /\ UNCHANGED <<kind, client, reader, next, noise>>

\* The handler returns, unless it never does, and the answer is written.
Answer ==
    /\ at = "run"
    /\ kind[next - 1] # "endless"
    /\ WriteResult(RunResult(next - 1))
    /\ at' = "read"
    /\ UNCHANGED <<kind, client, reader, next, noise>>

\* readline raises ValueError, and run_forever with it.
Overrun ==
    /\ at = "read"
    /\ next <= arrived
    /\ kind[next] = "long"
    /\ at' = "dead"
    /\ UNCHANGED <<kind, client, reader, next, output>>

\* At the end of stdin readline returns an empty line at once, every time;
\* it is no JSON, and the loop goes on without ever suspending.
EmptyLine ==
    /\ at = "read"
    /\ next > arrived
    /\ eof
    /\ noise < MaxNoise
    /\ noise' = noise + 1
    /\ WriteResult(NotDecodable(NoLine))
    /\ UNCHANGED <<kind, client, reader, next, at>>

Coroutine ==
    \/ PublishVersion \/ Suspend \/ Resume
    \/ RejectLine \/ TakeLine \/ Answer \/ Overrun \/ EmptyLine

Next ==
    \/ ClientSends \/ ClientCloses \/ ClientReads
    \/ LoopReads \/ LoopWrites
    \/ Coroutine

\* The event loop runs what is ready; the client reads what it is sent.
Fairness ==
    /\ WF_vars(Coroutine)
    /\ WF_vars(LoopReads)
    /\ WF_vars(LoopWrites)
    /\ WF_vars(ClientReads)

Spec == Init /\ [][Next]_vars

FairSpec == Spec /\ Fairness

-----------------------------------------------------------------------------
TypeOK ==
    /\ kind \in [Lines -> Kinds]
    /\ sent \in 0..N
    /\ closed \in BOOLEAN
    /\ arrived \in 0..sent
    /\ eof \in BOOLEAN
    /\ next \in 1..(arrived + 1)
    /\ at \in {"start", "read", "wait", "run", "dead"}
    /\ stdout \in Seq(Response)
    /\ gone \in 0..Len(stdout)
    /\ read \in 0..gone
    /\ gone - read \in 0..PipeSize
    /\ noise \in 0..MaxNoise

\* Answers leave in the order of the lines, each line has at most one, also
\* when some of them had to wait for the client to empty the pipe.
AnsweredInOrder ==
    \A i, j \in 1..Len(stdout) :
        (i < j /\ stdout[i].line # NoLine /\ stdout[j].line # NoLine)
            => stdout[i].line < stdout[j].line

\* Unlike CmdServer, a result json.dumps refuses is answered, but under id 0:
\* the client cannot tell which of its commands failed (server.py:214-225).
IdOrZero ==
    \A i \in 1..Len(stdout) :
        LET r == stdout[i] IN
        r.line # NoLine =>
            r.id = IF kind[r.line] \in {"invalid", "opaque"} THEN 0 ELSE IdOf[r.line]

\* A client that keeps reading gets the answer to every line it sent, even
\* one that had to wait for room in the pipe, unless a line hangs or is too
\* long or the client closes stdin: in all three cases the loop does not run
\* again, and answers that were ready stay in the transport.
Stuck == {"endless", "long"}

OpenClientIsAnswered ==
    \A l \in Lines :
        (l <= sent /\ \A k \in 1..l : kind[k] \notin Stuck)
            ~> (Visible(l) \/ closed \/ \E k \in l..sent : kind[k] \in Stuck)

\* The promise of CommandService, about what the client has read from the
\* pipe.  A result json.dumps refuses is answered here, under id 0; what the
\* empty line at the end of stdin produces is noise; this server never stops
\* in an orderly way.
Service == INSTANCE CommandService WITH
    due <- {[line |-> l,
             id |-> IF kind[l] \in {"invalid", "opaque"} THEN 0 ELSE IdOf[l],
             error |-> kind[l] \in {"invalid", "opaque", "raise"}]
                : l \in {m \in Lines : kind[m] \notin {"endless", "long"}}},
    taken <- next - 1,
    answers <- SubSeq(stdout, 1, read),
    stopped <- FALSE

ImplementsService == Service!ServiceSpec
=============================================================================
