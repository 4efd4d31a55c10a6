-------------------------- MODULE CmdServer_proofs --------------------------
(***************************************************************************)
(* Proofs about CmdServer for any number of lines, any set of pool threads *)
(* and any ids.                                                            *)
(***************************************************************************)
EXTENDS CmdServer, SequenceTheorems, TLAPS

USE CmdServerAssumption DEF Lines, NoJob, BannerLine

\* The lines whose commands are queued, and the lines answered so far.
Queued == {queue[i] : i \in 1..Len(queue)}
Answered == {stdout[i].line : i \in 1..Len(stdout)}

\* Nothing happens before the version is published.
StartInv ==
    main = "start" =>
        /\ next = 1
        /\ queue = <<>>
        /\ stdout = <<>>
        /\ \A w \in Workers : at[w] = "idle"

\* The queue holds commands in the order they came, none of them twice.
QueueInv ==
    /\ \A l \in Queued : l < next /\ kind[l] # "invalid"
    /\ \A i, j \in 1..Len(queue) : i < j => queue[i] < queue[j]

\* A thread holds a command while it runs it and until it has written the
\* answer; no command is held twice, or held and still queued.
JobInv ==
    /\ \A w \in Workers : at[w] \in {"run", "write"} <=> job[w] # NoJob
    /\ \A w \in Workers : job[w] # NoJob =>
          /\ job[w] < next
          /\ kind[job[w]] # "invalid"
          /\ at[w] = "write" => kind[job[w]] # "endless"
          /\ job[w] \notin Queued
          /\ \A v \in Workers : job[v] = job[w] => v = w

\* An answered command is neither queued nor held, and could be answered.
StdoutInv ==
    \A l \in Answered \ {BannerLine} :
        /\ l < next
        /\ kind[l] \notin {"opaque", "endless"}
        /\ l \notin Queued
        /\ \A w \in Workers : job[w] # l

IInv ==
    /\ TypeOK
    /\ StartInv
    /\ QueueInv
    /\ JobInv
    /\ StdoutInv
    /\ AnsweredOnce

-----------------------------------------------------------------------------
\* The types hold initially and every step keeps them.
LEMMA TypeInit == Init => TypeOK
BY DEF Init, TypeOK, Response

\* Every step keeps the types; that a job is a line comes from JobInv.
LEMMA TypeStep == TypeOK /\ JobInv /\ [Next]_vars => TypeOK'
<1> SUFFICES ASSUME TypeOK, JobInv, [Next]_vars PROVE TypeOK'
  OBVIOUS
<1> USE DEF TypeOK
<1>1. CASE PublishVersion
  <2>1. Banner \in Response
    BY DEF Banner, Response
  <2> QED BY <1>1, <2>1 DEF PublishVersion
<1>2. CASE FlushMain
  BY <1>2 DEF FlushMain
<1>3. CASE RejectLine
  <2>1. NotDecodable(next) \in Response
    BY <1>3 DEF NotDecodable, Response, RejectLine
  <2> QED BY <1>3, <2>1 DEF RejectLine
<1>4. CASE SubmitLine
  BY <1>4 DEF SubmitLine
<1>5. CASE EndOfInput
  BY <1>5 DEF EndOfInput
<1>6. CASE Exit
  BY <1>6 DEF Exit
<1>7. ASSUME NEW w \in Workers, TakeJob(w) PROVE TypeOK'
  <2>1. Head(queue) \in 0..N /\ Tail(queue) \in Seq(Lines)
    BY <1>7 DEF TakeJob
  <2> QED BY <1>7, <2>1 DEF TakeJob
<1>8. ASSUME NEW w \in Workers, FinishRun(w) PROVE TypeOK'
  BY <1>8 DEF FinishRun
<1>9. ASSUME NEW w \in Workers, WriteAnswer(w) PROVE TypeOK'
  <2>1. job[w] \in Lines
    BY <1>9 DEF WriteAnswer, JobInv
  <2>2. RunResult(job[w]) \in Response
    BY <2>1 DEF RunResult, Response
  <2> QED BY <1>9, <2>2 DEF WriteAnswer
<1>10. ASSUME NEW w \in Workers, LoseAnswer(w) PROVE TypeOK'
  BY <1>10 DEF LoseAnswer
<1>11. ASSUME NEW w \in Workers, FlushAnswer(w) PROVE TypeOK'
  BY <1>11 DEF FlushAnswer
<1>12. CASE UNCHANGED vars
  BY <1>12 DEF vars
<1> QED
  BY <1>1, <1>2, <1>3, <1>4, <1>5, <1>6, <1>7, <1>8, <1>9, <1>10, <1>11, <1>12
     DEF Next, MainStep, WorkerStep

-----------------------------------------------------------------------------
\* The invariant holds initially.
LEMMA InvInit == Init => IInv
BY TypeInit
   DEF Init, IInv, StartInv, QueueInv, JobInv, StdoutInv, AnsweredOnce, Queued, Answered

\* What the types say of the elements of the queue and of stdout.
LEMMA ElementTypes ==
    TypeOK => /\ \A i \in 1..Len(queue) : queue[i] \in 1..N
              /\ \A i \in 1..Len(stdout) : stdout[i].line \in 0..N
              /\ Len(queue) \in Nat
              /\ Len(stdout) \in Nat
<1> SUFFICES ASSUME TypeOK
             PROVE  /\ \A i \in 1..Len(queue) : queue[i] \in 1..N
                    /\ \A i \in 1..Len(stdout) : stdout[i].line \in 0..N
                    /\ Len(queue) \in Nat
                    /\ Len(stdout) \in Nat
  OBVIOUS
<1>1. queue \in Seq(Lines) /\ stdout \in Seq(Response)
  BY DEF TypeOK
<1>2. \A i \in 1..Len(queue) : queue[i] \in Lines
  BY <1>1
<1>3. \A i \in 1..Len(stdout) : stdout[i] \in Response
  BY <1>1
<1>4. Len(queue) \in Nat /\ Len(stdout) \in Nat
  BY <1>1
<1> QED
  BY <1>2, <1>3, <1>4 DEF Response

\* Writing one more response adds its line to the answered ones, and keeps
\* answers apart if the line is a new one.
LEMMA OneMoreAnswer ==
    ASSUME TypeOK, AnsweredOnce,
           NEW r, stdout' = Append(stdout, r), r.line \notin Answered
    PROVE  AnsweredOnce' /\ Answered' = Answered \cup {r.line}
<1> DEFINE n == Len(stdout)
<1>1. n \in Nat /\ stdout \in Seq(Response)
  BY DEF TypeOK
<1>2. /\ Len(stdout') = n + 1
      /\ \A i \in 1..n : stdout'[i] = stdout[i]
      /\ stdout'[n + 1] = r
  BY <1>1
<1>3. 1..(n + 1) = 1..n \cup {n + 1}
  BY <1>1
<1>4. Answered' = Answered \cup {r.line}
  BY <1>2, <1>3 DEF Answered
<1>5. \A i \in 1..n : stdout[i].line # r.line
  BY DEF Answered
<1>6. AnsweredOnce'
  <2> SUFFICES ASSUME NEW i \in 1..(n + 1), NEW j \in 1..(n + 1),
                      stdout'[i].line = stdout'[j].line
               PROVE  i = j
    BY <1>2 DEF AnsweredOnce
  <2>1. CASE i \in 1..n /\ j \in 1..n
    BY <1>2, <2>1 DEF AnsweredOnce
  <2>2. CASE i = n + 1 \/ j = n + 1
    BY <1>2, <1>3, <1>5, <2>2
  <2> QED
    BY <1>3, <2>1, <2>2
<1> QED
  BY <1>4, <1>6

\* Every step keeps the invariant.
LEMMA InvStep == IInv /\ [Next]_vars => IInv'
<1> SUFFICES ASSUME IInv, [Next]_vars PROVE IInv'
  OBVIOUS
<1>0. TypeOK'
  BY TypeStep DEF IInv
<1>e. /\ \A i \in 1..Len(queue) : queue[i] \in 1..N
      /\ \A i \in 1..Len(stdout) : stdout[i].line \in 0..N
      /\ Len(queue) \in Nat
      /\ Len(stdout) \in Nat
  BY ElementTypes DEF IInv
<1>t. /\ at \in [Workers -> {"idle", "run", "write", "flush"}]
      /\ job \in [Workers -> 0..N]
      /\ next \in 1..(N + 1)
      /\ Queued \subseteq 1..N
      /\ Answered \subseteq 0..N
  BY <1>e DEF IInv, TypeOK, Queued, Answered
<1> USE DEF IInv
<1>1. CASE PublishVersion
  <2>1. stdout' = <<Banner>>
    BY <1>1 DEF PublishVersion, StartInv
  <2>2. Answered' = {BannerLine}
    BY <2>1 DEF Answered, Banner
  <2>3. AnsweredOnce'
    BY <2>1 DEF AnsweredOnce
  <2> QED
    BY <1>0, <1>1, <2>2, <2>3
       DEF PublishVersion, StartInv, QueueInv, JobInv, StdoutInv, Queued
<1>2. CASE FlushMain
  BY <1>0, <1>2
     DEF FlushMain, StartInv, QueueInv, JobInv, StdoutInv, AnsweredOnce, Queued, Answered
<1>3. CASE RejectLine
  <2>0. /\ next \in 1..N /\ next' = next + 1
        /\ kind[next] = "invalid"
        /\ main = "read" /\ main' = "flush"
        /\ UNCHANGED <<kind, queue, at, job>>
    BY <1>3 DEF RejectLine
  <2>1. next \notin Answered
    BY <1>t, <2>0 DEF StdoutInv
  <2>2. AnsweredOnce' /\ Answered' = Answered \cup {next}
    BY <1>3, <2>1, OneMoreAnswer DEF RejectLine, NotDecodable
  <2>3. Queued' = Queued
    BY <2>0 DEF Queued
  <2>4. \A w \in Workers : job[w] # next
    BY <1>t, <2>0 DEF JobInv
  <2>5. StdoutInv'
    BY <1>t, <2>0, <2>2, <2>3, <2>4 DEF StdoutInv, QueueInv
  <2>6. QueueInv' /\ JobInv'
    BY <1>t, <2>0, <2>3 DEF QueueInv, JobInv
  <2> QED
    BY <1>0, <2>0, <2>2, <2>5, <2>6 DEF StartInv
<1>4. CASE SubmitLine
  <2>0. /\ next \in 1..N /\ next' = next + 1
        /\ kind[next] # "invalid"
        /\ main = "read" /\ main' = "read"
        /\ UNCHANGED <<kind, at, job, stdout>>
    BY <1>4 DEF SubmitLine
  <2> DEFINE n == Len(queue)
  <2>1. /\ Len(queue') = n + 1
        /\ \A i \in 1..n : queue'[i] = queue[i]
        /\ queue'[n + 1] = next
        /\ 1..(n + 1) = 1..n \cup {n + 1}
        /\ n \in Nat
    BY <1>4 DEF SubmitLine, TypeOK
  <2>2. Queued' = Queued \cup {next}
    <3>1. \A i \in 1..(n + 1) : queue'[i] = IF i \in 1..n THEN queue[i] ELSE next
      BY <2>1
    <3>2. Queued' = {queue'[i] : i \in 1..n} \cup {next}
      BY <2>1 DEF Queued
    <3>3. {queue'[i] : i \in 1..n} = Queued
      BY <2>1, <3>1 DEF Queued
    <3> QED
      BY <3>2, <3>3
  <2>3. \A i \in 1..n : queue[i] < next
    BY DEF QueueInv, Queued
  <2>4. ASSUME NEW i \in 1..Len(queue'), NEW j \in 1..Len(queue'), i < j
        PROVE  queue'[i] < queue'[j]
    <3>1. i \in 1..n
      BY <2>1, <2>4
    <3>2. CASE j \in 1..n
      BY <2>1, <2>4, <3>1, <3>2 DEF QueueInv
    <3>3. CASE j = n + 1
      BY <2>1, <2>3, <3>1, <3>3
    <3> QED
      BY <2>1, <3>2, <3>3
  <2>5. QueueInv'
    BY <1>t, <2>0, <2>2, <2>4 DEF QueueInv
  <2>6. JobInv'
    BY <1>t, <2>0, <2>2 DEF JobInv
  <2>7. StdoutInv'
    <3>1. Answered' = Answered
      BY <2>0 DEF Answered
    <3> QED
      BY <1>t, <2>0, <2>2, <3>1 DEF StdoutInv
  <2> QED
    BY <1>0, <2>0, <2>5, <2>6, <2>7 DEF StartInv, AnsweredOnce
<1>5. CASE EndOfInput
  BY <1>0, <1>5
     DEF EndOfInput, StartInv, QueueInv, JobInv, StdoutInv, AnsweredOnce, Queued, Answered
<1>6. CASE Exit
  BY <1>0, <1>6
     DEF Exit, StartInv, QueueInv, JobInv, StdoutInv, AnsweredOnce, Queued, Answered
<1>7. ASSUME NEW w \in Workers, TakeJob(w) PROVE IInv'
  <2> DEFINE q == Head(queue)
  <2>0. /\ at[w] = "idle" /\ at' = [at EXCEPT ![w] = "run"]
        /\ job' = [job EXCEPT ![w] = q]
        /\ UNCHANGED <<kind, main, next, stdout>>
    BY <1>7 DEF TakeJob
  <2>1. /\ Len(queue) >= 1
        /\ Len(queue') = Len(queue) - 1
        /\ \A i \in 1..Len(queue') : queue'[i] = queue[i + 1]
        /\ q = queue[1]
    BY <1>7 DEF TakeJob, TypeOK
  <2>2. \A i \in 1..Len(queue') : i + 1 \in 1..Len(queue) /\ queue[i + 1] > q
    BY <1>e, <2>1 DEF QueueInv
  <2>3. q \in Queued /\ Queued' \subseteq Queued /\ q \notin Queued'
    <3>1. q \in Queued
      BY <1>e, <2>1 DEF Queued
    <3>2. ASSUME NEW l \in Queued' PROVE l \in Queued /\ l # q
      <4>1. PICK i \in 1..Len(queue') : l = queue'[i]
        BY <3>2 DEF Queued
      <4>2. l = queue[i + 1] /\ i + 1 \in 1..Len(queue)
        BY <4>1, <2>1, <2>2
      <4>3. l > q /\ l \in 1..N /\ q \in 1..N
        BY <1>e, <4>2, <2>1, <2>2
      <4> QED
        BY <4>2, <4>3 DEF Queued
    <3> QED
      BY <3>1, <3>2
  <2>4. QueueInv'
    <3>1. ASSUME NEW i \in 1..Len(queue'), NEW j \in 1..Len(queue'), i < j
          PROVE  queue'[i] < queue'[j]
      <4>1. queue'[i] = queue[i + 1] /\ queue'[j] = queue[j + 1]
        BY <2>1
      <4>2. i + 1 \in 1..Len(queue) /\ j + 1 \in 1..Len(queue) /\ i + 1 < j + 1
        BY <2>2, <3>1
      <4> QED
        BY <4>1, <4>2 DEF QueueInv
    <3> QED
      BY <2>0, <2>3, <3>1 DEF QueueInv
  <2> HIDE DEF q
  <2>5. JobInv'
    <3>1. q \in 1..N /\ q < next /\ kind[q] # "invalid"
      BY <1>t, <2>3 DEF QueueInv
    <3>2. \A v \in Workers : job[v] # q
      BY <2>3, <3>1 DEF JobInv
    <3>3. \A v \in Workers : /\ job'[v] = IF v = w THEN q ELSE job[v]
                             /\ at'[v] = IF v = w THEN "run" ELSE at[v]
      BY <1>t, <2>0
    <3>4. ASSUME NEW v \in Workers
          PROVE  at'[v] \in {"run", "write"} <=> job'[v] # NoJob
      BY <3>1, <3>3 DEF JobInv
    <3>5. ASSUME NEW v \in Workers, job'[v] # NoJob
          PROVE  /\ job'[v] < next'
                 /\ kind'[job'[v]] # "invalid"
                 /\ at'[v] = "write" => kind'[job'[v]] # "endless"
                 /\ job'[v] \notin Queued'
                 /\ \A u \in Workers : job'[u] = job'[v] => u = v
      <4>1. CASE v = w
        BY <2>0, <2>3, <3>1, <3>2, <3>3, <4>1
      <4>2. CASE v # w
        BY <2>0, <2>3, <3>2, <3>3, <3>5, <4>2 DEF JobInv
      <4> QED
        BY <4>1, <4>2
    <3> QED
      BY <3>4, <3>5 DEF JobInv
  <2>6. StdoutInv'
    <3>1. \A v \in Workers : job'[v] \in {q, job[v]}
      BY <1>t, <2>0
    <3>2. Answered' = Answered
      BY <2>0 DEF Answered
    <3> QED
      BY <2>0, <2>3, <3>1, <3>2 DEF StdoutInv
  <2>7. main # "start"
    BY <1>7 DEF TakeJob, StartInv
  <2> QED
    BY <1>0, <2>0, <2>4, <2>5, <2>6, <2>7 DEF StartInv, AnsweredOnce
<1>8. ASSUME NEW w \in Workers, FinishRun(w) PROVE IInv'
  <2>0. /\ at[w] = "run" /\ kind[job[w]] # "endless"
        /\ \A v \in Workers : at'[v] = IF v = w THEN "write" ELSE at[v]
        /\ UNCHANGED <<kind, main, next, queue, job>> /\ Queued' = Queued
    BY <1>8, <1>t DEF FinishRun, Queued
  <2>1. JobInv'
    BY <2>0 DEF JobInv
  <2>2. main # "start"
    BY <2>0 DEF StartInv
  <2>3. stdout' = stdout /\ Answered' = Answered
    BY <1>8 DEF FinishRun, Answered
  <2> QED
    BY <1>0, <2>0, <2>1, <2>2, <2>3 DEF StartInv, QueueInv, StdoutInv, AnsweredOnce
<1>9. ASSUME NEW w \in Workers, WriteAnswer(w) PROVE IInv'
  <2>0. /\ at[w] = "write" /\ at' = [at EXCEPT ![w] = "flush"]
        /\ job' = [job EXCEPT ![w] = NoJob]
        /\ kind[job[w]] # "opaque"
        /\ UNCHANGED <<kind, main, next, queue>>
    BY <1>9 DEF WriteAnswer
  <2>1. /\ job[w] \in 1..N /\ job[w] < next /\ kind[job[w]] # "endless"
        /\ job[w] \notin Queued
    BY <1>t, <2>0 DEF JobInv
  <2>2. job[w] \notin Answered
    BY <2>1 DEF StdoutInv
  <2>3. AnsweredOnce' /\ Answered' = Answered \cup {job[w]}
    BY <1>9, <2>2, OneMoreAnswer DEF WriteAnswer, RunResult
  <2>4. Queued' = Queued
    BY <2>0 DEF Queued
  <2>5. \A v \in Workers : job'[v] = IF v = w THEN NoJob ELSE job[v]
    BY <1>t, <2>0
  <2>6. JobInv'
    BY <1>t, <2>0, <2>4, <2>5 DEF JobInv
  <2>7. \A v \in Workers : job'[v] # job[w]
    BY <2>1, <2>5 DEF JobInv
  <2>8. StdoutInv'
    BY <2>0, <2>1, <2>3, <2>4, <2>5, <2>7 DEF StdoutInv
  <2>9. StartInv' /\ QueueInv'
    BY <1>t, <2>0, <2>4 DEF StartInv, QueueInv
  <2> QED
    BY <1>0, <2>3, <2>6, <2>8, <2>9
<1>10. ASSUME NEW w \in Workers, LoseAnswer(w) PROVE IInv'
  <2>0. UNCHANGED <<kind, main, next, queue, stdout>>
    BY <1>10 DEF LoseAnswer
  <2>1. \A v \in Workers : job'[v] \in {NoJob, job[v]}
    BY <1>10, <1>t DEF LoseAnswer
  <2>2. JobInv'
    <3>1. /\ at[w] = "write"
          /\ \A v \in Workers : at'[v] = IF v = w THEN "idle" ELSE at[v]
          /\ \A v \in Workers : job'[v] = IF v = w THEN NoJob ELSE job[v]
          /\ Queued' = Queued
      BY <1>10, <1>t DEF LoseAnswer, Queued
    <3> QED
      BY <2>0, <3>1 DEF JobInv
  <2>3. StdoutInv'
    <3>1. Queued' = Queued /\ Answered' = Answered
      BY <2>0 DEF Queued, Answered
    <3> QED
      BY <2>0, <2>1, <3>1 DEF StdoutInv
  <2>4. main # "start"
    BY <1>10 DEF LoseAnswer, StartInv
  <2>5. Queued' = Queued
    BY <2>0 DEF Queued
  <2> QED
    BY <1>0, <2>0, <2>2, <2>3, <2>4, <2>5 DEF StartInv, QueueInv, AnsweredOnce
<1>11. ASSUME NEW w \in Workers, FlushAnswer(w) PROVE IInv'
  <2>0. /\ at[w] = "flush"
        /\ \A v \in Workers : at'[v] = IF v = w THEN "idle" ELSE at[v]
        /\ UNCHANGED <<kind, main, next, queue, job>> /\ Queued' = Queued
    BY <1>11, <1>t DEF FlushAnswer, Queued
  <2>1. JobInv'
    BY <2>0 DEF JobInv
  <2>2. main # "start"
    BY <2>0 DEF StartInv
  <2>3. stdout' = stdout /\ Answered' = Answered
    BY <1>11 DEF FlushAnswer, Answered
  <2> QED
    BY <1>0, <2>0, <2>1, <2>2, <2>3 DEF StartInv, QueueInv, StdoutInv, AnsweredOnce
<1>12. CASE UNCHANGED vars
  BY <1>0, <1>12
     DEF vars, StartInv, QueueInv, JobInv, StdoutInv, AnsweredOnce, Queued, Answered
<1> QED
  BY <1>1, <1>2, <1>3, <1>4, <1>5, <1>6, <1>7, <1>8, <1>9, <1>10, <1>11, <1>12
     DEF Next, MainStep, WorkerStep

\* The invariant holds in every reachable state.
THEOREM Invariance == Spec => []IInv
BY InvInit, InvStep, PTL DEF Spec

\* Type correctness of the server for every instance.
THEOREM TypeCorrect == Spec => []TypeOK
<1>1. IInv => TypeOK
  BY DEF IInv
<1> QED
  BY <1>1, Invariance, PTL

\* No line is ever answered twice, for any number of lines and threads.
THEOREM AnsweredAtMostOnce == Spec => []AnsweredOnce
<1>1. IInv => AnsweredOnce
  BY DEF IInv
<1> QED
  BY <1>1, Invariance, PTL

-----------------------------------------------------------------------------
\* A response that was written is an old one or the new one.
LEMMA WrittenResponses ==
    ASSUME TypeOK, NEW r, stdout' = Append(stdout, r)
    PROVE  \A i \in 1..Len(stdout') :
              stdout'[i] = r \/ (i \in 1..Len(stdout) /\ stdout'[i] = stdout[i])
<1>1. Len(stdout) \in Nat /\ stdout \in Seq(Response)
  BY DEF TypeOK
<1>2. /\ Len(stdout') = Len(stdout) + 1
      /\ \A i \in 1..Len(stdout) : stdout'[i] = stdout[i]
      /\ stdout'[Len(stdout) + 1] = r
  BY <1>1
<1> QED
  BY <1>1, <1>2

\* What a response says of the line it answers.
RightId(r) ==
    r.line \in Lines =>
        /\ r.line < next
        /\ r.id = IF kind[r.line] = "invalid" THEN 0 ELSE IdOf[r.line]

\* Every step keeps the ids right: it appends one right response or none.
LEMMA OwnIdStep == IInv /\ OwnId /\ [Next]_vars => OwnId'
<1> SUFFICES ASSUME IInv, OwnId, [Next]_vars PROVE OwnId'
  OBVIOUS
<1>1. \A i \in 1..Len(stdout) : RightId(stdout[i])
  BY DEF OwnId, RightId
<1>t. next \in 1..(N + 1) /\ job \in [Workers -> 0..N]
  BY DEF IInv, TypeOK
<1>2. ASSUME NEW r, stdout' = Append(stdout, r), RightId(r)',
             kind' = kind, next' \in {next, next + 1}
      PROVE  OwnId'
  <2>1. ASSUME NEW i \in 1..Len(stdout') PROVE RightId(stdout[i])'
    <3>1. CASE stdout'[i] = r
      BY <1>2, <3>1 DEF RightId
    <3>2. CASE i \in 1..Len(stdout) /\ stdout'[i] = stdout[i]
      BY <1>1, <1>2, <1>t, <3>2 DEF RightId
    <3> QED
      BY <1>2, <3>1, <3>2, WrittenResponses DEF IInv
  <2> QED
    BY <2>1 DEF OwnId, RightId
<1>3. ASSUME UNCHANGED <<kind, stdout>>, next' \in {next, next + 1}
      PROVE  OwnId'
  BY <1>3, <1>t DEF OwnId
<1>4. CASE PublishVersion
  BY <1>4, <1>2 DEF PublishVersion, Banner, RightId
<1>5. CASE RejectLine
  BY <1>5, <1>2, <1>t DEF RejectLine, NotDecodable, RightId
<1>6. ASSUME NEW w \in Workers, WriteAnswer(w) PROVE OwnId'
  <2>1. job[w] \in Lines /\ job[w] < next /\ kind[job[w]] # "invalid"
    BY <1>6, <1>t DEF WriteAnswer, IInv, JobInv
  <2> QED
    BY <1>6, <1>2, <1>t, <2>1 DEF WriteAnswer, RunResult, RightId
<1>7. ASSUME NEW w \in Workers,
             TakeJob(w) \/ FinishRun(w) \/ LoseAnswer(w) \/ FlushAnswer(w)
      PROVE  OwnId'
  BY <1>7, <1>3 DEF TakeJob, FinishRun, LoseAnswer, FlushAnswer
<1>8. CASE FlushMain \/ SubmitLine \/ EndOfInput \/ Exit \/ UNCHANGED vars
  BY <1>8, <1>3 DEF FlushMain, SubmitLine, EndOfInput, Exit, vars
<1> QED
  BY <1>4, <1>5, <1>6, <1>7, <1>8 DEF Next, MainStep, WorkerStep

\* Every response carries the id of the command it answers, whatever ids
\* the client uses.
THEOREM ResponsesCarryOwnId == Spec => []OwnId
<1>1. Init => OwnId
  BY DEF Init, OwnId
<1> QED
  BY <1>1, OwnIdStep, Invariance, PTL DEF Spec

-----------------------------------------------------------------------------
\* No command disappears between the threads, text that was not flushed has
\* a thread that will flush it, and an exited process has no work left.
NoneLost ==
    \A l \in Lines :
        l < next => \/ kind[l] = "opaque"
                    \/ l \in Queued
                    \/ l \in Answered
                    \/ \E w \in Workers : job[w] = l

FlushOwed ==
    flushed = Len(stdout) \/ main = "flush" \/ \E w \in Workers : at[w] = "flush"

NoWorkLeft ==
    main = "exited" => queue = <<>> /\ \A w \in Workers : at[w] = "idle"

ExitInv == NoneLost /\ FlushOwed /\ NoWorkLeft

\* Nothing is lost or owed in the initial state.
LEMMA ExitInvInit == Init => ExitInv
BY DEF Init, ExitInv, NoneLost, FlushOwed, NoWorkLeft, TypeOK

\* Answering a line keeps every answered line answered.
LEMMA AnsweredGrows ==
    ASSUME TypeOK, NEW r, stdout' = Append(stdout, r)
    PROVE  Answered' = Answered \cup {r.line}
<1>1. Len(stdout) \in Nat /\ stdout \in Seq(Response)
  BY DEF TypeOK
<1>2. /\ Len(stdout') = Len(stdout) + 1
      /\ \A i \in 1..Len(stdout) : stdout'[i] = stdout[i]
      /\ stdout'[Len(stdout) + 1] = r
      /\ 1..(Len(stdout) + 1) = 1..Len(stdout) \cup {Len(stdout) + 1}
  BY <1>1
<1> QED
  BY <1>2 DEF Answered

\* Every step keeps commands and unflushed text accounted for.
LEMMA ExitInvStep == IInv /\ ExitInv /\ [Next]_vars => ExitInv'
<1> SUFFICES ASSUME IInv, ExitInv, [Next]_vars PROVE ExitInv'
  OBVIOUS
<1>t. /\ TypeOK
      /\ next \in 1..(N + 1)
      /\ at \in [Workers -> {"idle", "run", "write", "flush"}]
      /\ job \in [Workers -> 0..N]
      /\ Len(queue) \in Nat
  BY ElementTypes DEF IInv, TypeOK
<1> USE DEF ExitInv
<1>1. CASE PublishVersion
  <2>0. TypeOK /\ stdout' = Append(stdout, Banner) /\ Banner.line = BannerLine
    BY <1>1, <1>t DEF PublishVersion, Banner
  <2>1. Answered' = Answered \cup {BannerLine} /\ Queued' = Queued
    <3>1. Answered' = Answered \cup {BannerLine}
      BY <2>0, AnsweredGrows
    <3>2. Queued' = Queued
      BY <1>1 DEF PublishVersion, Queued
    <3> QED
      BY <3>1, <3>2
  <2> QED
    BY <1>1, <2>1 DEF PublishVersion, NoneLost, FlushOwed, NoWorkLeft
<1>2. CASE FlushMain
  BY <1>2 DEF FlushMain, NoneLost, FlushOwed, NoWorkLeft, Queued, Answered
<1>3. CASE RejectLine
  <2>0. TypeOK /\ stdout' = Append(stdout, NotDecodable(next)) /\ NotDecodable(next).line = next
    BY <1>3, <1>t DEF RejectLine, NotDecodable
  <2>1. Answered' = Answered \cup {next} /\ Queued' = Queued
    <3>1. Answered' = Answered \cup {next}
      BY <2>0, AnsweredGrows
    <3>2. Queued' = Queued
      BY <1>3 DEF RejectLine, Queued
    <3> QED
      BY <3>1, <3>2
  <2>2. \A l \in Lines : l < next' => l < next \/ l = next
    BY <1>3, <1>t DEF RejectLine
  <2> QED
    BY <1>3, <2>1, <2>2 DEF RejectLine, NoneLost, FlushOwed, NoWorkLeft
<1>4. CASE SubmitLine
  <2>1. Queued' = Queued \cup {next}
    <3>1. /\ Len(queue') = Len(queue) + 1
          /\ \A i \in 1..Len(queue) : queue'[i] = queue[i]
          /\ queue'[Len(queue) + 1] = next
          /\ 1..(Len(queue) + 1) = 1..Len(queue) \cup {Len(queue) + 1}
      BY <1>4, <1>t DEF SubmitLine, TypeOK
    <3> QED
      BY <3>1 DEF Queued
  <2>2. \A l \in Lines : l < next' => l < next \/ l = next
    BY <1>4, <1>t DEF SubmitLine
  <2>3. Answered' = Answered
    BY <1>4 DEF SubmitLine, Answered
  <2> QED
    BY <1>4, <2>1, <2>2, <2>3 DEF SubmitLine, NoneLost, FlushOwed, NoWorkLeft
<1>5. CASE EndOfInput
  BY <1>5 DEF EndOfInput, NoneLost, FlushOwed, NoWorkLeft, Queued, Answered
<1>6. CASE Exit
  BY <1>6 DEF Exit, NoneLost, FlushOwed, NoWorkLeft, Queued, Answered
<1>7. ASSUME NEW w \in Workers, TakeJob(w) PROVE ExitInv'
  <2> DEFINE q == Head(queue)
  <2>1. \A l \in Queued : l = q \/ l \in Queued'
    <3>1. /\ Len(queue) >= 1
          /\ Len(queue') = Len(queue) - 1
          /\ \A i \in 1..Len(queue') : queue'[i] = queue[i + 1]
          /\ q = queue[1]
      BY <1>7, <1>t DEF TakeJob, TypeOK
    <3>2. ASSUME NEW i \in 1..Len(queue), i # 1
          PROVE  i - 1 \in 1..Len(queue') /\ queue[i] = queue'[i - 1]
      BY <1>t, <3>1, <3>2
    <3> QED
      BY <3>1, <3>2 DEF Queued
  <2>2. \A v \in Workers : /\ job'[v] = IF v = w THEN q ELSE job[v]
                           /\ at'[v] = IF v = w THEN "run" ELSE at[v]
    BY <1>7, <1>t DEF TakeJob
  <2>3. at[w] = "idle" /\ job[w] = NoJob /\ main # "exited"
        /\ UNCHANGED <<kind, main, next, stdout, flushed>> /\ Answered' = Answered
    BY <1>7 DEF TakeJob, IInv, JobInv, NoWorkLeft, Answered
  <2> HIDE DEF q
  <2>4. NoneLost'
    <3> SUFFICES ASSUME NEW l \in Lines, l < next, kind[l] # "opaque", l \notin Answered
                 PROVE  l \in Queued' \/ \E v \in Workers : job'[v] = l
      BY <2>3 DEF NoneLost
    <3>1. CASE l \in Queued
      BY <2>1, <2>2, <3>1
    <3>2. ASSUME NEW v \in Workers, job[v] = l PROVE job'[v] = l
      BY <2>2, <2>3, <3>2
    <3> QED
      BY <3>1, <3>2 DEF NoneLost
  <2>5. FlushOwed'
    BY <2>2, <2>3 DEF FlushOwed
  <2> QED
    BY <2>3, <2>4, <2>5 DEF NoWorkLeft
<1>8. ASSUME NEW w \in Workers, FinishRun(w) PROVE ExitInv'
  <2>1. \A v \in Workers : at'[v] = IF v = w THEN "write" ELSE at[v]
    BY <1>8, <1>t DEF FinishRun
  <2>2. at[w] = "run" /\ UNCHANGED <<kind, main, next, queue, job, stdout, flushed>>
    BY <1>8 DEF FinishRun
  <2> QED
    BY <2>1, <2>2 DEF NoneLost, FlushOwed, NoWorkLeft, Queued, Answered
<1>9. ASSUME NEW w \in Workers, WriteAnswer(w) PROVE ExitInv'
  <2>0. /\ TypeOK /\ stdout' = Append(stdout, RunResult(job[w]))
        /\ RunResult(job[w]).line = job[w]
    BY <1>9, <1>t DEF WriteAnswer, RunResult
  <2>1. Answered' = Answered \cup {job[w]} /\ Queued' = Queued
    <3>1. Answered' = Answered \cup {job[w]}
      BY <2>0, AnsweredGrows
    <3>2. Queued' = Queued
      BY <1>9 DEF WriteAnswer, Queued
    <3> QED
      BY <3>1, <3>2
  <2>2. \A v \in Workers : /\ job'[v] = IF v = w THEN NoJob ELSE job[v]
                           /\ at'[v] = IF v = w THEN "flush" ELSE at[v]
    BY <1>9, <1>t DEF WriteAnswer
  <2>3. at[w] = "write" /\ UNCHANGED <<kind, main, next, queue>>
    BY <1>9 DEF WriteAnswer
  <2> QED
    BY <2>1, <2>2, <2>3 DEF NoneLost, FlushOwed, NoWorkLeft
<1>10. ASSUME NEW w \in Workers, LoseAnswer(w) PROVE ExitInv'
  <2>1. \A v \in Workers : /\ job'[v] = IF v = w THEN NoJob ELSE job[v]
                           /\ at'[v] = IF v = w THEN "idle" ELSE at[v]
    BY <1>10, <1>t DEF LoseAnswer
  <2>2. /\ at[w] = "write" /\ kind[job[w]] = "opaque"
        /\ UNCHANGED <<kind, main, next, queue, stdout, flushed>>
        /\ Queued' = Queued /\ Answered' = Answered
    BY <1>10 DEF LoseAnswer, Queued, Answered
  <2> QED
    BY <2>1, <2>2 DEF NoneLost, FlushOwed, NoWorkLeft
<1>11. ASSUME NEW w \in Workers, FlushAnswer(w) PROVE ExitInv'
  <2>1. /\ at[w] = "flush" /\ flushed' = Len(stdout)
        /\ UNCHANGED <<kind, main, next, queue, job, stdout>>
        /\ Queued' = Queued /\ Answered' = Answered
    BY <1>11 DEF FlushAnswer, Queued, Answered
  <2> QED
    BY <2>1 DEF NoneLost, FlushOwed, NoWorkLeft
<1>12. CASE UNCHANGED vars
  BY <1>12 DEF vars, NoneLost, FlushOwed, NoWorkLeft, Queued, Answered
<1> QED
  BY <1>1, <1>2, <1>3, <1>4, <1>5, <1>6, <1>7, <1>8, <1>9, <1>10, <1>11, <1>12
     DEF Next, MainStep, WorkerStep

\* In an exited process every line that could be answered is answered.
LEMMA ExitedAnsweredAll == IInv /\ ExitInv => ExitOwesNothing
<1> SUFFICES ASSUME IInv, ExitInv, main = "exited",
                    NEW l \in Lines, l < next, kind[l] # "opaque"
             PROVE  Visible(l)
  BY DEF ExitOwesNothing
<1>1. /\ queue = <<>> /\ Queued = {}
      /\ \A w \in Workers : at[w] = "idle" /\ job[w] = NoJob
      /\ flushed = Len(stdout)
  BY DEF ExitInv, NoWorkLeft, FlushOwed, Queued, IInv, JobInv
<1>2. l \in Answered
  BY <1>1 DEF ExitInv, NoneLost
<1> QED
  BY <1>1, <1>2 DEF Answered, Visible

\* When the process is gone, every line it read and could answer has its
\* answer outside the process.
THEOREM NothingOwedAtExit == Spec => []ExitOwesNothing
BY Invariance, ExitInvInit, ExitInvStep, ExitedAnsweredAll, PTL DEF Spec

-----------------------------------------------------------------------------
\* Refinement: what is due to a line, and what the client can read.
Reply(l) ==
    [line |-> l, id |-> IF kind[l] = "invalid" THEN 0 ELSE IdOf[l],
     error |-> kind[l] \in {"invalid", "raise"}]

Due == {Reply(l) : l \in {m \in Lines : kind[m] \notin {"opaque", "endless"}}}

Readable == SubSeq(stdout, 1, flushed)

\* The version is the first response, each other one is the reply to a line.
IsReply(r) == r.line \in Lines /\ r = Reply(r.line)

WireInv ==
    /\ main # "start" => stdout # <<>>
    /\ \A i \in 1..Len(stdout) : IF i = 1 THEN stdout[i] = Banner ELSE IsReply(stdout[i])

\* Nothing is written initially.
LEMMA WireInit == Init => WireInv
BY DEF Init, WireInv

\* Every step writes a reply, or the version first, or nothing.
LEMMA WireStep == IInv /\ WireInv /\ [Next]_vars => WireInv'
<1> SUFFICES ASSUME IInv, WireInv, [Next]_vars
             PROVE  WireInv'
  OBVIOUS
<1>t. /\ Len(stdout) \in Nat /\ stdout \in Seq(Response)
      /\ next \in 1..(N + 1) /\ job \in [Workers -> 0..N]
  BY DEF IInv, TypeOK
<1>1. ASSUME NEW r, stdout' = Append(stdout, r), IsReply(r), kind' = kind, stdout # <<>>
      PROVE  WireInv'
  <2>1. Len(stdout) > 0
    BY <1>1, <1>t
  <2>2. /\ Len(stdout') = Len(stdout) + 1
        /\ \A i \in 1..Len(stdout) : stdout'[i] = stdout[i]
        /\ stdout'[Len(stdout) + 1] = r
    BY <1>1, <1>t
  <2>3. \A i \in 1..Len(stdout') : i \in 1..Len(stdout) \/ i = Len(stdout) + 1
    BY <2>2, <1>t
  <2>4. stdout' # <<>>
    BY <2>2, <1>t
  <2>5. ASSUME NEW i \in 1..Len(stdout')
        PROVE  IF i = 1 THEN stdout'[i] = Banner ELSE IsReply(stdout'[i])
    <3>1. CASE i \in 1..Len(stdout)
      BY <2>2, <3>1 DEF WireInv
    <3>2. CASE i = Len(stdout) + 1
      BY <2>1, <2>2, <1>1, <1>t, <3>2
    <3> QED
      BY <2>3, <3>1, <3>2
  <2> QED
    BY <2>4, <2>5, <1>1 DEF WireInv, IsReply, Reply
<1>2. ASSUME UNCHANGED <<kind, stdout>>, main # "start" \/ main' = main
      PROVE  WireInv'
  BY <1>2 DEF WireInv, IsReply, Reply
<1>3. CASE PublishVersion
  <2>1. stdout' = <<Banner>>
    BY <1>3 DEF PublishVersion, IInv, StartInv
  <2> QED
    BY <2>1 DEF WireInv
<1>4. CASE RejectLine
  <2>1. IsReply(NotDecodable(next)) /\ stdout # <<>>
    BY <1>4 DEF RejectLine, NotDecodable, IsReply, Reply, WireInv
  <2> QED
    BY <1>4, <1>1, <2>1 DEF RejectLine
<1>5. ASSUME NEW w \in Workers, WriteAnswer(w)
      PROVE  WireInv'
  <2>1. job[w] \in Lines /\ kind[job[w]] # "invalid"
    BY <1>5, <1>t DEF WriteAnswer, IInv, JobInv
  <2>2. IsReply(RunResult(job[w]))
    BY <2>1 DEF RunResult, IsReply, Reply
  <2>3. stdout # <<>>
    BY <1>5 DEF WriteAnswer, IInv, StartInv, WireInv
  <2> QED
    BY <1>5, <1>1, <2>2, <2>3 DEF WriteAnswer
<1>6. ASSUME NEW w \in Workers,
             TakeJob(w) \/ FinishRun(w) \/ LoseAnswer(w) \/ FlushAnswer(w)
      PROVE  WireInv'
  BY <1>6, <1>2 DEF TakeJob, FinishRun, LoseAnswer, FlushAnswer
<1>7. CASE FlushMain \/ SubmitLine \/ EndOfInput \/ Exit \/ UNCHANGED vars
  BY <1>7, <1>2 DEF FlushMain, SubmitLine, EndOfInput, Exit, vars
<1> QED
  BY <1>3, <1>4, <1>5, <1>6, <1>7 DEF Next, MainStep, WorkerStep

\* The client reads a prefix of what was written.
LEMMA Prefix ==
    ASSUME NEW s \in Seq(Response), NEW n \in 0..Len(s)
    PROVE  /\ SubSeq(s, 1, n) \in Seq(Response)
           /\ Len(SubSeq(s, 1, n)) = n
           /\ \A i \in 1..n : SubSeq(s, 1, n)[i] = s[i]
<1>1. n \in Nat /\ Len(s) \in Nat
  OBVIOUS
<1>2. \A i \in 1..n : s[i] \in Response
  BY <1>1
<1>3. n <= Len(s)
  OBVIOUS
<1> QED
  BY <1>1, <1>2, <1>3

\* Writing without flushing shows the client nothing new.
LEMMA WriteShowsNothing ==
    ASSUME TypeOK, NEW r \in Response, stdout' = Append(stdout, r), flushed' = flushed
    PROVE  Readable' = Readable
<1>1. Len(stdout) \in Nat /\ stdout \in Seq(Response) /\ flushed \in 0..Len(stdout)
  BY DEF TypeOK
<1>2. /\ stdout' \in Seq(Response)
      /\ flushed \in 0..Len(stdout')
      /\ \A i \in 1..flushed : stdout'[i] = stdout[i]
  BY <1>1
<1>3. /\ Readable \in Seq(Response) /\ Len(Readable) = flushed
      /\ \A i \in 1..flushed : Readable[i] = stdout[i]
  BY <1>1, Prefix DEF Readable
<1>4. /\ Readable' \in Seq(Response) /\ Len(Readable') = flushed
      /\ \A i \in 1..flushed : Readable'[i] = stdout'[i]
  BY <1>2, Prefix DEF Readable
<1> QED
  BY <1>2, <1>3, <1>4, SeqEqual

\* Flushing shows the version or replies due and not shown before, or nothing.
LEMMA FlushAnswers ==
    ASSUME IInv, WireInv, flushed' = Len(stdout), main # "exited",
           UNCHANGED <<kind, next, stdout>>, (main = "exited")' = (main = "exited")
    PROVE  [Service!ServiceNext]_(Service!svars)
<1>t. /\ Len(stdout) \in Nat /\ stdout \in Seq(Response) /\ flushed \in 0..Len(stdout)
      /\ next \in 1..(N + 1) /\ \A i \in 1..Len(stdout) : stdout[i].line \in 0..N
  BY ElementTypes DEF IInv, TypeOK
<1>1. /\ Readable \in Seq(Response) /\ Len(Readable) = flushed
      /\ \A i \in 1..flushed : Readable[i] = stdout[i]
  BY <1>t, Prefix DEF Readable
<1>2. /\ Readable' \in Seq(Response) /\ Len(Readable') = Len(stdout)
      /\ \A i \in 1..Len(stdout) : Readable'[i] = stdout[i]
  BY <1>t, Prefix DEF Readable
<1>3. CASE flushed = Len(stdout)
  <2>1. Readable' = Readable
    BY <1>3 DEF Readable
  <2> QED
    BY <2>1 DEF Service!svars, Readable
<1>4. CASE flushed # Len(stdout)
  <2>1. Len(Readable') > Len(Readable)
    BY <1>1, <1>2, <1>4, <1>t
  <2>2. SubSeq(Readable', 1, Len(Readable)) = Readable
    <3>1. /\ SubSeq(Readable', 1, flushed) \in Seq(Response)
          /\ Len(SubSeq(Readable', 1, flushed)) = flushed
          /\ \A i \in 1..flushed : SubSeq(Readable', 1, flushed)[i] = Readable'[i]
      BY <1>2, <1>t, Prefix
    <3>2. \A i \in 1..flushed : Readable'[i] = stdout[i]
      BY <1>2, <1>t
    <3> QED
      BY <3>1, <3>2, <1>1, SeqEqual
  <2>3. ASSUME NEW i \in (Len(Readable) + 1)..Len(Readable'), i # 1
        PROVE  /\ Readable'[i] \in Due
               /\ Readable'[i].line <= next - 1
               /\ \A j \in 1..(i - 1) : Readable'[j] # Readable'[i]
    <3>1. i \in 1..Len(stdout) /\ Readable'[i] = stdout[i]
      BY <1>1, <1>2, <1>t
    <3> DEFINE l == stdout[i].line
    <3>2. l \in Lines /\ stdout[i] = Reply(l) /\ l \in Answered
      BY <2>3, <3>1 DEF WireInv, IsReply, Answered
    <3>3. l < next /\ kind[l] \notin {"opaque", "endless"}
      BY <3>2 DEF IInv, StdoutInv
    <3>4. stdout[i] \in Due
      BY <3>2, <3>3 DEF Due
    <3>5. l <= next - 1
      BY <3>2, <3>3, <1>t
    <3>6. ASSUME NEW j \in 1..(i - 1)
          PROVE  Readable'[j] # Readable'[i]
      <4>1. j \in 1..Len(stdout) /\ j # i /\ Readable'[j] = stdout[j]
        BY <3>1, <1>2, <1>t
      <4> QED
        BY <4>1, <3>1 DEF IInv, AnsweredOnce
    <3> QED
      BY <3>1, <3>4, <3>5, <3>6
  <2>4. 1 \in 1..Len(Readable') => Readable'[1] = Banner
    BY <1>2 DEF WireInv
  <2>5. Banner = Service!Version
    BY DEF Banner, Service!Version, Service!NoLine
  <2>6. ASSUME NEW i \in (Len(Readable) + 1)..Len(Readable')
        PROVE  Service!Fits(i)
    <3>1. CASE i = 1
      <4>1. 1 \in 1..Len(Readable')
        BY <3>1, <1>1, <1>2, <1>t
      <4> QED
        BY <4>1, <3>1, <2>4, <2>5 DEF Service!Fits, Readable
    <3>2. CASE i # 1
      BY <3>2, <2>3 DEF Service!Fits, Readable, Due, Reply
    <3> QED
      BY <3>1, <3>2
  <2>7. Service!Answer
    BY <2>1, <2>2, <2>6 DEF Service!Answer, Readable
  <2> QED
    BY <2>7 DEF Service!ServiceNext
<1> QED
  BY <1>3, <1>4

\* Initially nothing is taken, answered or stopped.
LEMMA RefinementInit == Init => Service!ServiceInit
<1> SUFFICES ASSUME Init
             PROVE  Service!ServiceInit
  OBVIOUS
<1>1. SubSeq(stdout, 1, flushed) = <<>>
  BY DEF Init
<1>2. \A r \in Due : r \in UNION {{Service!Result(l), Service!Failure(l), Service!Anonymous(l)}
                                    : l \in Lines}
  <2> SUFFICES ASSUME NEW l \in Lines
               PROVE  Reply(l) \in {Service!Result(l), Service!Failure(l), Service!Anonymous(l)}
    BY DEF Due
  <2>1. CASE kind[l] = "invalid"
    BY <2>1 DEF Reply, Service!Anonymous
  <2>2. CASE kind[l] = "raise"
    <3>1. kind[l] # "invalid" /\ (kind[l] \in {"invalid", "raise"}) = TRUE
      BY <2>2
    <3> QED
      BY <3>1 DEF Reply, Service!Failure
  <2>3. CASE kind[l] \notin {"invalid", "raise"}
    <3>1. kind[l] # "invalid" /\ (kind[l] \in {"invalid", "raise"}) = FALSE
      BY <2>3
    <3> QED
      BY <3>1 DEF Reply, Service!Result
  <2> QED
    BY <2>1, <2>2, <2>3
<1>3. \A r, s \in Due : r.line = s.line => r = s
  BY DEF Due, Reply
<1>4. next - 1 = 0 /\ ~(main = "exited")
  BY DEF Init
<1>5. Due \in SUBSET UNION {{Service!Result(l), Service!Failure(l), Service!Anonymous(l)}
                              : l \in Lines}
  BY <1>2
<1> QED
  BY <1>1, <1>3, <1>4, <1>5 DEF Service!ServiceInit, Service!Lines, Due, Reply

\* Every step is a step of the abstract service, or invisible to it.
LEMMA RefinementStep ==
    IInv /\ WireInv /\ WireInv' /\ ExitInv /\ ExitOwesNothing' /\ [Next]_vars
        => [Service!ServiceNext]_(Service!svars)
<1> SUFFICES ASSUME IInv, WireInv, WireInv', ExitInv, ExitOwesNothing', [Next]_vars
             PROVE  [Service!ServiceNext]_(Service!svars)
  OBVIOUS
<1>t. TypeOK /\ next \in 1..(N + 1) /\ Len(stdout) \in Nat /\ stdout \in Seq(Response)
      /\ flushed \in 0..Len(stdout) /\ job \in [Workers -> 0..N]
  BY DEF IInv, TypeOK
<1>1. ASSUME UNCHANGED <<kind, next>>, Readable' = Readable,
             (main = "exited")' = (main = "exited")
      PROVE  [Service!ServiceNext]_(Service!svars)
  BY <1>1 DEF Service!svars, Readable
<1>2. ASSUME next \in Lines, next' = next + 1, Readable' = Readable, kind' = kind,
             main # "exited", main' # "exited"
      PROVE  [Service!ServiceNext]_(Service!svars)
  <2>1. next - 1 < N /\ (next - 1)' = next - 1 + 1
    BY <1>2, <1>t
  <2>2. (main = "exited")' = (main = "exited")
    BY <1>2
  <2>3. Service!TakeLine
    BY <1>2, <2>1, <2>2 DEF Service!TakeLine, Readable
  <2> QED
    BY <2>3 DEF Service!ServiceNext
<1>3. CASE PublishVersion
  <2>1. Banner \in Response
    BY DEF Banner, Response
  <2> QED
    BY <1>1, <1>3, <2>1, <1>t, WriteShowsNothing DEF PublishVersion
<1>4. CASE FlushMain
  BY <1>4, FlushAnswers DEF FlushMain
<1>5. CASE RejectLine
  <2>1. NotDecodable(next) \in Response
    BY <1>5 DEF RejectLine, NotDecodable, Response
  <2> QED
    BY <1>2, <1>5, <2>1, <1>t, WriteShowsNothing DEF RejectLine
<1>6. CASE SubmitLine
  BY <1>2, <1>6 DEF SubmitLine, Readable
<1>7. CASE EndOfInput
  BY <1>1, <1>7 DEF EndOfInput, Readable
<1>8. CASE Exit
  <2>1. Readable' = Readable /\ UNCHANGED <<kind, next, stdout, flushed>>
        /\ main = "join" /\ main' = "exited"
    BY <1>8 DEF Exit, Readable
  <2>2. /\ Len(Readable) = flushed
        /\ \A i \in 1..flushed : Readable[i] = stdout[i]
    BY <1>t, Prefix DEF Readable
  <2>3. ASSUME NEW r \in Due, r.line <= next - 1
        PROVE  \E i \in 1..Len(Readable) : Readable[i] = r
    <3>1. r.line \in Lines /\ r = Reply(r.line) /\ kind[r.line] # "opaque"
      BY DEF Due, Reply
    <3>2. r.line < next
      BY <3>1, <2>3, <1>t
    <3>3. PICK i \in 1..flushed : stdout[i].line = r.line
      BY <3>1, <3>2, <2>1 DEF ExitOwesNothing, Visible
    <3>4. i \in 1..Len(stdout) /\ i # 1
      BY <3>1, <3>3, <1>t DEF WireInv, Banner
    <3>5. stdout[i] = r
      BY <3>1, <3>3, <3>4 DEF WireInv, IsReply
    <3> QED
      BY <3>3, <3>5, <2>2
  <2>4. \A r \in Due : r.line <= next - 1 => r \in Service!Delivered
    BY <2>3 DEF Service!Delivered, Readable
  <2> QED
    BY <2>1, <2>4 DEF Service!ServiceNext, Service!Stop, Readable, Due, Reply
<1>9. ASSUME NEW w \in Workers, TakeJob(w) \/ FinishRun(w) \/ LoseAnswer(w)
      PROVE  [Service!ServiceNext]_(Service!svars)
  BY <1>1, <1>9 DEF TakeJob, FinishRun, LoseAnswer, Readable
<1>10. ASSUME NEW w \in Workers, WriteAnswer(w)
       PROVE  [Service!ServiceNext]_(Service!svars)
  <2>1. job[w] \in Lines
    BY <1>10, <1>t DEF WriteAnswer, IInv, JobInv
  <2>2. RunResult(job[w]) \in Response
    BY <2>1 DEF RunResult, Response
  <2> QED
    BY <1>1, <1>10, <2>2, <1>t, WriteShowsNothing DEF WriteAnswer
<1>11. ASSUME NEW w \in Workers, FlushAnswer(w)
       PROVE  [Service!ServiceNext]_(Service!svars)
  <2>1. main # "exited"
    BY <1>11 DEF FlushAnswer, ExitInv, NoWorkLeft
  <2> QED
    BY <1>11, <2>1, FlushAnswers DEF FlushAnswer
<1>12. CASE UNCHANGED vars
  BY <1>1, <1>12 DEF vars, Readable
<1> QED
  BY <1>3, <1>4, <1>5, <1>6, <1>7, <1>8, <1>9, <1>10, <1>11, <1>12
     DEF Next, MainStep, WorkerStep

\* The thread-pool server implements the abstract service: the client reads
\* the version, then replies due to lines taken before, each under its own id
\* and none twice, and an exited server owes none (server.py:60-70, 121-168).
THEOREM Refinement == Spec => ImplementsService
BY RefinementInit, RefinementStep, Invariance, WireInit, WireStep, ExitInvInit, ExitInvStep,
   NothingOwedAtExit, PTL DEF Spec, ImplementsService, Service!ServiceSpec
=============================================================================
