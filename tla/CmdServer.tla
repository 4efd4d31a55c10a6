------------------------------ MODULE CmdServer ------------------------------
(***************************************************************************)
(* The default server of dotextensions (CmdServer, server.py:121-168, with *)
(* run, server.py:60-70, and the exit path of __main__.py:19-32): the main *)
(* thread reads stdin line by line, submits each command to a thread pool  *)
(* and writes an error itself for a line it cannot decode; pool threads    *)
(* run the handlers and write the answers.                                 *)
(*                                                                         *)
(* A line is its number.  What a line is like ("kind") is chosen once:     *)
(*   "invalid"  not JSON, or not the fields of a Command                   *)
(*   "answer"   a handler returns a Result                                 *)
(*   "raise"    no handler of that name, or the handler raises             *)
(*   "opaque"   the handler's Result cannot be turned into JSON            *)
(*   "endless"  the handler never returns                                  *)
(* stdout is the text written so far, one response per element; only its   *)
(* first "flushed" elements have left the process.                         *)
(***************************************************************************)
EXTENDS Integers, Sequences, FiniteSets

CONSTANTS
    Workers,   \* the threads of the pool
    N,         \* bound: the client sends at most N lines
    IdOf,      \* the id the client put into each line
    Kinds      \* the kinds of line this instance sends

AllKinds == {"invalid", "answer", "raise", "opaque", "endless"}

Lines == 1..N

ASSUME CmdServerAssumption ==
    /\ N \in Nat
    /\ IsFiniteSet(Workers)
    /\ IdOf \in [Lines -> Int]
    /\ Kinds \subseteq AllKinds

NoJob == 0
BannerLine == 0

VARIABLES
    kind,      \* kind[l]: what line l is like
    main,      \* where the main thread is
    next,      \* the next line of stdin
    queue,     \* the work queue of the pool
    at,        \* at[w]: where pool thread w is
    job,       \* job[w]: the line whose command w holds
    stdout,    \* responses written
    flushed    \* how many of them have been flushed

vars == <<kind, main, next, queue, at, job, stdout, flushed>>

Response == [line : 0..N, id : Int, error : BOOLEAN]

Banner == [line |-> BannerLine, id |-> -1, error |-> FALSE]

\* The answer the main thread gives to a line it cannot decode.
NotDecodable(l) == [line |-> l, id |-> 0, error |-> TRUE]

\* Wrong variant: an error is answered like a line that cannot be decoded.
RunResultAnonymous(l) ==
    [line |-> l, id |-> IF kind[l] = "raise" THEN 0 ELSE IdOf[l], error |-> kind[l] = "raise"]

\* run(command): the handler's result, or the error of the except branch,
\* under the id of the command either way.
RunResult(l) == [line |-> l, id |-> IdOf[l], error |-> kind[l] = "raise"]

Visible(l) == \E i \in 1..flushed : stdout[i].line = l

-----------------------------------------------------------------------------
Init ==
    /\ kind \in [Lines -> Kinds]
    /\ main = "start"
    /\ next = 1
    /\ queue = <<>>
    /\ at = [w \in Workers |-> "idle"]
    /\ job = [w \in Workers |-> NoJob]
    /\ stdout = <<>>
    /\ flushed = 0

\* run_forever publishes the version before it reads anything.
PublishVersion ==
    /\ main = "start"
    /\ stdout' = Append(stdout, Banner)
    /\ main' = "flush"
    /\ UNCHANGED <<kind, next, queue, at, job, flushed>>

\* The second half of the main thread's write_result.
FlushMain ==
    /\ main = "flush"
    /\ flushed' = Len(stdout)
    /\ main' = "read"
    /\ UNCHANGED <<kind, next, queue, at, job, stdout>>

\* get_command raises: the main thread writes the answer itself.
RejectLine ==
    /\ main = "read"
    /\ next \in Lines
    /\ kind[next] = "invalid"
    /\ stdout' = Append(stdout, NotDecodable(next))
    /\ main' = "flush"
    /\ next' = next + 1
    /\ UNCHANGED <<kind, queue, at, job, flushed>>

\* get_command returns: the command goes to the pool.
SubmitLine ==
    /\ main = "read"
    /\ next \in Lines
    /\ kind[next] # "invalid"
    /\ queue' = Append(queue, next)
    /\ next' = next + 1
    /\ UNCHANGED <<kind, main, at, job, stdout, flushed>>

\* The client closes stdin, after any number of lines: the loop ends and
\* sys.exit makes the interpreter wait for the pool.
EndOfInput ==
    /\ main = "read"
    /\ main' = "join"
    /\ UNCHANGED <<kind, next, queue, at, job, stdout, flushed>>

\* A pool thread takes the oldest submitted command.
TakeJob(w) ==
    /\ at[w] = "idle"
    /\ queue # <<>>
    /\ job' = [job EXCEPT ![w] = Head(queue)]
    /\ at' = [at EXCEPT ![w] = "run"]
    /\ queue' = Tail(queue)
    /\ UNCHANGED <<kind, main, next, stdout, flushed>>

\* run returns, unless the handler never does.
FinishRun(w) ==
    /\ at[w] = "run"
    /\ kind[job[w]] # "endless"
    /\ at' = [at EXCEPT ![w] = "write"]
    /\ UNCHANGED <<kind, main, next, queue, job, stdout, flushed>>

\* write_result: json.dumps, then one write of the whole line.
WriteAnswer(w) ==
    /\ at[w] = "write"
    /\ kind[job[w]] # "opaque"
    /\ stdout' = Append(stdout, RunResult(job[w]))
    /\ at' = [at EXCEPT ![w] = "flush"]
    /\ job' = [job EXCEPT ![w] = NoJob]
    /\ UNCHANGED <<kind, main, next, queue, flushed>>

\* Wrong variant: the exception takes the pool thread with it.
LoseAnswerAndThread(w) ==
    /\ at[w] = "write"
    /\ kind[job[w]] = "opaque"
    /\ UNCHANGED vars

\* json.dumps raises: the exception stays in the Future nobody looks at.
LoseAnswer(w) ==
    /\ at[w] = "write"
    /\ kind[job[w]] = "opaque"
    /\ at' = [at EXCEPT ![w] = "idle"]
    /\ job' = [job EXCEPT ![w] = NoJob]
    /\ UNCHANGED <<kind, main, next, queue, stdout, flushed>>

\* The second half of a pool thread's write_result: flushes whatever any
\* thread has written by now.
FlushAnswer(w) ==
    /\ at[w] = "flush"
    /\ flushed' = Len(stdout)
    /\ at' = [at EXCEPT ![w] = "idle"]
    /\ UNCHANGED <<kind, main, next, queue, job, stdout>>

\* Wrong variant: the process stays until every line has its answer.
ExitWhenAllAnswered ==
    /\ main = "join"
    /\ \A l \in 1..(next - 1) : Visible(l)
    /\ main' = "exited"
    /\ UNCHANGED <<kind, next, queue, at, job, stdout, flushed>>

\* The interpreter has joined the pool: threads leave their loop only when
\* the queue is empty.
Exit ==
    /\ main = "join"
    /\ queue = <<>>
    /\ \A w \in Workers : at[w] = "idle"
    /\ main' = "exited"
    /\ UNCHANGED <<kind, next, queue, at, job, stdout, flushed>>

MainStep ==
    PublishVersion \/ FlushMain \/ RejectLine \/ SubmitLine \/ EndOfInput \/ Exit

WorkerStep(w) ==
    TakeJob(w) \/ FinishRun(w) \/ WriteAnswer(w) \/ LoseAnswer(w) \/ FlushAnswer(w)

Next == MainStep \/ \E w \in Workers : WorkerStep(w)

\* Threads that can run do run; the client owes no line and no end of input.
Fairness ==
    /\ WF_vars(PublishVersion \/ FlushMain \/ Exit)
    /\ \A w \in Workers : WF_vars(WorkerStep(w))

Spec == Init /\ [][Next]_vars

FairSpec == Spec /\ Fairness

-----------------------------------------------------------------------------
TypeOK ==
    /\ kind \in [Lines -> Kinds]
    /\ main \in {"start", "flush", "read", "join", "exited"}
    /\ next \in 1..(N + 1)
    /\ queue \in Seq(Lines)
    /\ at \in [Workers -> {"idle", "run", "write", "flush"}]
    /\ job \in [Workers -> 0..N]
    /\ stdout \in Seq(Response)
    /\ flushed \in 0..Len(stdout)

\* No line is answered twice, however the pool threads and the main thread
\* interleave their writes and flushes (run_respond, write_result).
AnsweredOnce ==
    \A i, j \in 1..Len(stdout) :
        stdout[i].line = stdout[j].line => i = j

\* A response carries the id of the command it answers; id 0 only ever
\* answers a line that could not be decoded (server.py:64, 68, 138, 150).
OwnId ==
    \A i \in 1..Len(stdout) :
        LET r == stdout[i] IN
        r.line \in Lines =>
            /\ r.line < next
            /\ r.id = IF kind[r.line] = "invalid" THEN 0 ELSE IdOf[r.line]

\* When the process is gone every line it read has its answer outside the
\* process, unless json.dumps refused the result: sys.exit drains the pool,
\* and nothing is left behind in stdout's buffer.
ExitOwesNothing ==
    main = "exited" =>
        \A l \in Lines : l < next /\ kind[l] # "opaque" => Visible(l)

-----------------------------------------------------------------------------
Endless == {l \in Lines : kind[l] = "endless"}

\* While fewer commands hang than the pool has threads, every other line the
\* server has read is answered: a hung handler costs one thread, not the
\* server.
HungHandlerCostsOneThread ==
    \A l \in Lines :
        (/\ l < next
         /\ kind[l] \notin {"opaque", "endless"}
         /\ Cardinality(Endless) < Cardinality(Workers)) ~> Visible(l)

\* Closing stdin ends the process unless some command it took never ends.
EofEndsServer ==
    (main = "join" /\ \A l \in Endless : l >= next) ~> (main = "exited")

\* The promise of CommandService, about the responses that have left the
\* process: the first is the version, each other one carries the id and the
\* outcome of a line taken before, no line has two, and an exited server has
\* answered all it took but the "opaque" lines, which nothing is due to.
Service == INSTANCE CommandService WITH
    due <- {[line |-> l,
             id |-> IF kind[l] = "invalid" THEN 0 ELSE IdOf[l],
             error |-> kind[l] \in {"invalid", "raise"}]
                : l \in {m \in Lines : kind[m] \notin {"opaque", "endless"}}},
    taken <- next - 1,
    answers <- SubSeq(stdout, 1, flushed),
    stopped <- main = "exited"

ImplementsService == Service!ServiceSpec
=============================================================================
