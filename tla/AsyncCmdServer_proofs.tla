------------------------ MODULE AsyncCmdServer_proofs ------------------------
(***************************************************************************)
(* Proofs about AsyncCmdServer for any number of lines of any kinds and    *)
(* ids, and a pipe of any size.                                            *)
(***************************************************************************)
EXTENDS AsyncCmdServer, SequenceTheorems, TLAPS

USE AsyncCmdServerAssumption DEF Lines, NoLine

\* The command that runs, if one does, is the last line taken.
RunInv ==
    at = "run" => next > 1 /\ kind[next - 1] \notin {"invalid", "long"}

\* What was answered for line l was answered after l was taken, and once its
\* handler was through.
StdoutInv ==
    \A i \in 1..Len(stdout) :
        LET l == stdout[i].line IN
        l # NoLine => /\ l < next
                      /\ at = "run" => l < next - 1
                      /\ kind[l] \notin {"endless", "long"}

IInv == TypeOK /\ RunInv /\ StdoutInv /\ AnsweredInOrder /\ IdOrZero

-----------------------------------------------------------------------------
\* What is answered is a response.
LEMMA ResponseType ==
    /\ Banner \in Response
    /\ NotDecodable(NoLine) \in Response
    /\ TypeOK => \A l \in Lines : NotDecodable(l) \in Response /\ RunResult(l) \in Response
BY DEF Banner, NotDecodable, RunResult, Response, TypeOK, AllKinds

\* write_result appends, and fills the pipe no further than it goes.
LEMMA WriteType ==
    ASSUME TypeOK, NEW r \in Response, WriteResult(r), UNCHANGED read
    PROVE  /\ stdout' = Append(stdout, r)
           /\ stdout' \in Seq(Response)
           /\ Len(stdout') = Len(stdout) + 1
           /\ \A i \in 1..Len(stdout) : stdout'[i] = stdout[i]
           /\ stdout'[Len(stdout) + 1] = r
           /\ gone' \in 0..Len(stdout')
           /\ read \in 0..gone'
           /\ gone' - read \in 0..PipeSize
<1>1. stdout \in Seq(Response) /\ Len(stdout) \in Nat
  BY DEF TypeOK
<1>2. stdout' = Append(stdout, r)
  BY DEF WriteResult
<1>3. /\ stdout' \in Seq(Response)
      /\ Len(stdout') = Len(stdout) + 1
      /\ \A i \in 1..Len(stdout) : stdout'[i] = stdout[i]
      /\ stdout'[Len(stdout) + 1] = r
  BY <1>1, <1>2
<1>4. /\ gone \in 0..Len(stdout)
      /\ read \in 0..gone
      /\ gone - read \in 0..PipeSize
      /\ gone' = IF gone = Len(stdout) /\ gone - read < PipeSize THEN gone + 1 ELSE gone
  BY DEF TypeOK, WriteResult
<1>5. gone' \in 0..(Len(stdout) + 1) /\ read \in 0..gone' /\ gone' - read \in 0..PipeSize
  BY <1>1, <1>4
<1> QED
  BY <1>2, <1>3, <1>5

\* The line of a response that was written is a line, or none.
LEMMA LineType ==
    ASSUME TypeOK
    PROVE  \A i \in 1..Len(stdout) : stdout[i].line \in 0..N /\ stdout[i].line \in Nat
<1>1. stdout \in Seq(Response)
  BY DEF TypeOK
<1>2. \A i \in 1..Len(stdout) : stdout[i] \in Response
  BY <1>1
<1>3. \A r \in Response : r.line \in 0..N
  BY DEF Response
<1> QED
  BY <1>2, <1>3

LEMMA TypeInit == Init => TypeOK
<1> SUFFICES ASSUME Init
             PROVE  TypeOK
  OBVIOUS
<1>1. stdout \in Seq(Response) /\ Len(stdout) = 0
  BY DEF Init
<1>2. /\ sent \in 0..N /\ arrived \in 0..sent /\ next \in 1..(arrived + 1)
      /\ gone \in 0..Len(stdout) /\ read \in 0..gone /\ gone - read \in 0..PipeSize
      /\ noise \in 0..MaxNoise
  BY <1>1 DEF Init
<1> QED
  BY <1>1, <1>2 DEF Init, TypeOK

LEMMA TypeStep == TypeOK /\ RunInv /\ [Next]_vars => TypeOK'
<1> SUFFICES ASSUME TypeOK, RunInv, [Next]_vars
             PROVE  TypeOK'
  OBVIOUS
<1>t. /\ sent \in 0..N /\ arrived \in 0..sent /\ next \in 1..(arrived + 1)
      /\ N \in Nat /\ MaxNoise \in Nat /\ PipeSize \in Nat
  BY DEF TypeOK
<1>1. CASE ClientSends
  BY <1>1, <1>t DEF ClientSends, TypeOK, reader, output
<1>2. CASE ClientCloses
  BY <1>2 DEF ClientCloses, TypeOK, reader, output
<1>3. CASE ClientReads
  <2>1. read \in 0..gone /\ gone \in 0..Len(stdout) /\ gone - read \in 0..PipeSize
        /\ Len(stdout) \in Nat
    BY DEF TypeOK
  <2>2. read' \in 0..gone /\ gone - read' \in 0..PipeSize
    BY <1>3, <2>1, <1>t DEF ClientReads
  <2> QED
    BY <1>3, <2>2 DEF ClientReads, TypeOK, reader, output
<1>4. CASE LoopReads
  <2>1. arrived' = arrived \/ arrived' \in (arrived + 1)..sent
    BY <1>4 DEF LoopReads
  <2>2. arrived' \in 0..sent /\ next \in 1..(arrived' + 1) /\ eof' \in BOOLEAN
    <3>1. CASE arrived' = arrived
      BY <3>1, <1>4, <1>t DEF LoopReads, TypeOK
    <3>2. CASE arrived' \in (arrived + 1)..sent
      <4>1. PICK a \in (arrived + 1)..sent : arrived' = a
        BY <3>2
      <4>2. a \in 0..sent /\ next \in 1..(a + 1)
        BY <1>t
      <4>3. eof' \in BOOLEAN
        BY <1>4 DEF LoopReads, TypeOK
      <4> QED
        BY <4>1, <4>2, <4>3
    <3> QED
      BY <2>1, <3>1, <3>2
  <2> QED
    BY <1>4, <2>2 DEF LoopReads, TypeOK, client, output
<1>5. CASE LoopWrites
  <2>1. read \in 0..gone /\ gone \in 0..Len(stdout) /\ Len(stdout) \in Nat
    BY DEF TypeOK
  <2>2. PICK g \in (gone + 1)..Len(stdout) : g - read <= PipeSize /\ gone' = g
    BY <1>5 DEF LoopWrites
  <2>3. g \in 0..Len(stdout) /\ read \in 0..g /\ g - read \in 0..PipeSize
    BY <2>1, <2>2, <1>t
  <2>4. gone' \in 0..Len(stdout) /\ read \in 0..gone' /\ gone' - read \in 0..PipeSize
    BY <2>2, <2>3
  <2> QED
    BY <1>5, <2>4 DEF LoopWrites, TypeOK, client, reader
<1>6. CASE PublishVersion
  <2>1. WriteResult(Banner) /\ UNCHANGED read
    BY <1>6 DEF PublishVersion, client
  <2>2. stdout' \in Seq(Response) /\ gone' \in 0..Len(stdout') /\ read \in 0..gone'
        /\ gone' - read \in 0..PipeSize
    BY <2>1, WriteType, ResponseType
  <2> QED
    BY <1>6, <2>2 DEF PublishVersion, TypeOK, client, reader
<1>7. CASE Suspend \/ Resume \/ Overrun
  BY <1>7 DEF Suspend, Resume, Overrun, TypeOK, client, reader, output
<1>8. CASE RejectLine
  <2>1. WriteResult(NotDecodable(next)) /\ UNCHANGED read /\ next \in Lines
    BY <1>8, <1>t DEF RejectLine, client
  <2>2. stdout' \in Seq(Response) /\ gone' \in 0..Len(stdout') /\ read \in 0..gone'
        /\ gone' - read \in 0..PipeSize
    BY <2>1, WriteType, ResponseType
  <2>3. next' \in 1..(arrived + 1)
    BY <1>8, <1>t DEF RejectLine
  <2> QED
    BY <1>8, <2>2, <2>3 DEF RejectLine, TypeOK, client, reader
<1>9. CASE TakeLine
  BY <1>9, <1>t DEF TakeLine, TypeOK, client, reader, output
<1>10. CASE Answer
  <2>1. WriteResult(RunResult(next - 1)) /\ UNCHANGED read /\ next - 1 \in Lines
    BY <1>10, <1>t DEF Answer, client, RunInv
  <2>2. stdout' \in Seq(Response) /\ gone' \in 0..Len(stdout') /\ read \in 0..gone'
        /\ gone' - read \in 0..PipeSize
    BY <2>1, WriteType, ResponseType
  <2> QED
    BY <1>10, <2>2 DEF Answer, TypeOK, client, reader
<1>11. CASE EmptyLine
  <2>1. WriteResult(NotDecodable(NoLine)) /\ UNCHANGED read
    BY <1>11 DEF EmptyLine, client
  <2>2. stdout' \in Seq(Response) /\ gone' \in 0..Len(stdout') /\ read \in 0..gone'
        /\ gone' - read \in 0..PipeSize
    BY <2>1, WriteType, ResponseType
  <2>3. noise' \in 0..MaxNoise
    BY <1>11, <1>t DEF EmptyLine, TypeOK
  <2> QED
    BY <1>11, <2>2, <2>3 DEF EmptyLine, TypeOK, client, reader
<1>12. CASE UNCHANGED vars
  BY <1>12 DEF vars, TypeOK
<1> QED
  BY <1>1, <1>2, <1>3, <1>4, <1>5, <1>6, <1>7, <1>8, <1>9, <1>10, <1>11, <1>12
     DEF Next, Coroutine

-----------------------------------------------------------------------------
LEMMA InvInit == Init => IInv
BY TypeInit DEF Init, IInv, RunInv, StdoutInv, AnsweredInOrder, IdOrZero

\* A response that answers no line, or a line taken last whose handler is
\* through, may be written.
LEMMA WriteKeeps ==
    ASSUME IInv, NEW r \in Response, WriteResult(r), UNCHANGED <<read, kind>>,
           next' \in next..(next + 1), at' # "run",
           r.line # NoLine =>
               /\ r.line \in Lines
               /\ r.line = next' - 1
               /\ next' = next => at = "run"
               /\ kind[r.line] \notin {"endless", "long"}
               /\ r.id = IF kind[r.line] \in {"invalid", "opaque"} THEN 0 ELSE IdOf[r.line]
    PROVE  StdoutInv' /\ AnsweredInOrder' /\ IdOrZero'
<1> DEFINE n == Len(stdout)
<1>1. /\ n \in Nat /\ Len(stdout') = n + 1
      /\ \A i \in 1..n : stdout'[i] = stdout[i]
      /\ stdout'[n + 1] = r
  <2>1. TypeOK /\ UNCHANGED read
    BY DEF IInv
  <2> QED
    BY <2>1, WriteType DEF TypeOK
<1>2. next \in Nat /\ \A i \in 1..n : stdout[i].line \in Nat
  BY LineType DEF IInv, TypeOK
<1>3. \A i \in 1..(n + 1) : i \in 1..n \/ i = n + 1
  BY <1>1
<1> HIDE DEF n
<1>4. \A i \in 1..n : stdout[i].line # NoLine =>
          /\ stdout[i].line < next
          /\ at = "run" => stdout[i].line < next - 1
          /\ kind[stdout[i].line] \notin {"endless", "long"}
  BY DEF IInv, StdoutInv, n
<1>5. \A i \in 1..n : stdout[i].line # NoLine /\ r.line # NoLine => stdout[i].line < r.line
  <2> SUFFICES ASSUME NEW i \in 1..n, stdout[i].line # NoLine, r.line # NoLine
               PROVE  stdout[i].line < r.line
    OBVIOUS
  <2>1. r.line = next' - 1 /\ (next' = next => at = "run") /\ next' \in next..(next + 1)
    OBVIOUS
  <2> QED
    BY <1>2, <1>4, <2>1
<1>6. StdoutInv'
  <2> SUFFICES ASSUME NEW i \in 1..(n + 1), stdout'[i].line # NoLine
               PROVE  stdout'[i].line < next' /\ kind[stdout'[i].line] \notin {"endless", "long"}
    BY <1>1 DEF StdoutInv, n
  <2>1. CASE i \in 1..n
    BY <2>1, <1>1, <1>2, <1>4
  <2>2. CASE i = n + 1
    BY <2>2, <1>1, <1>2
  <2> QED
    BY <2>1, <2>2, <1>3
<1>7. AnsweredInOrder'
  <2> SUFFICES ASSUME NEW i \in 1..(n + 1), NEW j \in 1..(n + 1), i < j,
                      stdout'[i].line # NoLine, stdout'[j].line # NoLine
               PROVE  stdout'[i].line < stdout'[j].line
    BY <1>1 DEF AnsweredInOrder, n
  <2>1. i \in 1..n
    BY <1>1
  <2>2. CASE j \in 1..n
    BY <2>1, <2>2, <1>1 DEF IInv, AnsweredInOrder, n
  <2>3. CASE j = n + 1
    BY <2>1, <2>3, <1>1, <1>5
  <2> QED
    BY <2>2, <2>3, <1>3
<1>8. IdOrZero'
  <2> SUFFICES ASSUME NEW i \in 1..(n + 1), stdout'[i].line # NoLine
               PROVE  stdout'[i].id = IF kind[stdout'[i].line] \in {"invalid", "opaque"} THEN 0
                                      ELSE IdOf[stdout'[i].line]
    BY <1>1 DEF IdOrZero, n
  <2>1. CASE i \in 1..n
    BY <2>1, <1>1 DEF IInv, IdOrZero, n
  <2>2. CASE i = n + 1
    BY <2>2, <1>1
  <2> QED
    BY <2>1, <2>2, <1>3
<1> QED
  BY <1>6, <1>7, <1>8

\* The steps that write nothing and end no handler.
LEMMA QuietKeeps ==
    ASSUME IInv, UNCHANGED <<stdout, kind>>,
           \/ next' = next /\ (at' = "run" => at = "run")
           \/ next' = next + 1 /\ next \in Lines
    PROVE  StdoutInv' /\ AnsweredInOrder' /\ IdOrZero'
<1>1. next \in Nat /\ \A i \in 1..Len(stdout) : stdout[i].line \in Nat
  BY LineType DEF IInv, TypeOK
<1>2. StdoutInv'
  BY <1>1 DEF IInv, StdoutInv
<1> QED
  BY <1>2 DEF IInv, AnsweredInOrder, IdOrZero

LEMMA InvStep == IInv /\ [Next]_vars => IInv'
<1> SUFFICES ASSUME IInv, [Next]_vars
             PROVE  IInv'
  OBVIOUS
<1>t. /\ TypeOK /\ RunInv
      /\ sent \in 0..N /\ arrived \in 0..sent /\ next \in 1..(arrived + 1)
  BY DEF IInv, TypeOK
<1>0. TypeOK'
  BY <1>t, TypeStep
<1>1. RunInv'
  BY <1>t DEF RunInv, Next, Coroutine, ClientSends, ClientCloses, ClientReads, LoopReads,
     LoopWrites, PublishVersion, Suspend, Resume, RejectLine, TakeLine, Answer, Overrun,
     EmptyLine, vars
<1>2. StdoutInv' /\ AnsweredInOrder' /\ IdOrZero'
  <2>1. CASE ClientSends \/ ClientCloses \/ ClientReads \/ LoopReads \/ LoopWrites
    BY <2>1, QuietKeeps
       DEF ClientSends, ClientCloses, ClientReads, LoopReads, LoopWrites, output
  <2>2. CASE Suspend \/ Resume \/ Overrun
    BY <2>2, QuietKeeps DEF Suspend, Resume, Overrun, output
  <2>3. CASE TakeLine
    BY <2>3, QuietKeeps, <1>t DEF TakeLine, output
  <2>4. CASE PublishVersion
    <3>1. WriteResult(Banner) /\ UNCHANGED <<read, kind, next>> /\ at' = "read"
      BY <2>4 DEF PublishVersion, client, reader
    <3>2. Banner.line = NoLine
      BY DEF Banner
    <3> QED
      BY <3>1, <3>2, WriteKeeps, ResponseType, <1>t
  <2>5. CASE RejectLine
    <3>1. /\ WriteResult(NotDecodable(next)) /\ UNCHANGED <<read, kind>>
          /\ next' = next + 1 /\ at' = "read" /\ next \in Lines /\ kind[next] = "invalid"
      BY <2>5, <1>t DEF RejectLine, client, reader
    <3>2. NotDecodable(next).line = next /\ NotDecodable(next).id = 0
      BY DEF NotDecodable
    <3> QED
      BY <3>1, <3>2, WriteKeeps, ResponseType, <1>t
  <2>6. CASE Answer
    <3>1. /\ WriteResult(RunResult(next - 1)) /\ UNCHANGED <<read, kind, next>>
          /\ at = "run" /\ at' = "read" /\ next - 1 \in Lines
          /\ kind[next - 1] \notin {"invalid", "long", "endless"}
      BY <2>6, <1>t DEF Answer, client, reader, RunInv
    <3>2. /\ RunResult(next - 1).line = next - 1
          /\ RunResult(next - 1).id = IF kind[next - 1] = "opaque" THEN 0 ELSE IdOf[next - 1]
      BY DEF RunResult, NotDecodable
    <3> QED
      BY <3>1, <3>2, WriteKeeps, ResponseType, <1>t
  <2>7. CASE EmptyLine
    <3>1. WriteResult(NotDecodable(NoLine)) /\ UNCHANGED <<read, kind, next>> /\ at' # "run"
      BY <2>7 DEF EmptyLine, client, reader
    <3>2. NotDecodable(NoLine).line = NoLine
      BY DEF NotDecodable
    <3> QED
      BY <3>1, <3>2, WriteKeeps, ResponseType, <1>t
  <2>8. CASE UNCHANGED vars
    BY <2>8, QuietKeeps DEF vars
  <2> QED
    BY <2>1, <2>2, <2>3, <2>4, <2>5, <2>6, <2>7, <2>8 DEF Next, Coroutine
<1> QED
  BY <1>0, <1>1, <1>2 DEF IInv

LEMMA Invariance == Spec => []IInv
BY InvInit, InvStep, PTL DEF Spec

\* The variables have their types; the pipe never holds more than its size,
\* and the client has read no more than went into it (server.py:176-187).
THEOREM TypeCorrect == Spec => []TypeOK
BY Invariance, PTL DEF IInv

\* Answers leave in the order of the lines and none twice, however many of
\* them had to wait in the transport (server.py:195-233).
THEOREM InOrder == Spec => []AnsweredInOrder
BY Invariance, PTL DEF IInv

\* An answer has the id of its line, or 0 if the line or its result could not
\* be decoded or encoded (server.py:214-225).
THEOREM IdsAreOwnOrZero == Spec => []IdOrZero
BY Invariance, PTL DEF IInv

-----------------------------------------------------------------------------
\* Refinement: what is due to a line, and what the client has read.
Reply(l) ==
    [line |-> l, id |-> IF kind[l] \in {"invalid", "opaque"} THEN 0 ELSE IdOf[l],
     error |-> kind[l] \in {"invalid", "opaque", "raise"}]

Due == {Reply(l) : l \in {m \in Lines : kind[m] \notin {"endless", "long"}}}

Readable == SubSeq(stdout, 1, read)

\* The version comes first; then replies to lines, and noise.
IsReply(r) == r.line \in Lines /\ r = Reply(r.line)

WireInv ==
    /\ at = "start" <=> stdout = <<>>
    /\ \A i \in 1..Len(stdout) :
          IF i = 1 THEN stdout[i] = Banner
          ELSE IsReply(stdout[i]) \/ stdout[i] = NotDecodable(NoLine)

LEMMA WireInit == Init => WireInv
BY DEF Init, WireInv

\* Every step writes the version first, a reply, noise, or nothing.
LEMMA WireStep == IInv /\ WireInv /\ [Next]_vars => WireInv'
<1> SUFFICES ASSUME IInv, WireInv, [Next]_vars
             PROVE  WireInv'
  OBVIOUS
<1>t. /\ Len(stdout) \in Nat /\ stdout \in Seq(Response)
      /\ next \in 1..(arrived + 1) /\ arrived \in 0..N
  BY DEF IInv, TypeOK
<1>1. ASSUME NEW r, stdout' = Append(stdout, r), IsReply(r) \/ r = NotDecodable(NoLine),
             kind' = kind, at # "start", at' # "start"
      PROVE  WireInv'
  <2>1. Len(stdout) > 0
    BY <1>1, <1>t DEF WireInv
  <2>2. /\ Len(stdout') = Len(stdout) + 1
        /\ \A i \in 1..Len(stdout) : stdout'[i] = stdout[i]
        /\ stdout'[Len(stdout) + 1] = r
    BY <1>1, <1>t
  <2>3. \A i \in 1..Len(stdout') : i \in 1..Len(stdout) \/ i = Len(stdout) + 1
    BY <2>2, <1>t
  <2>4. stdout' # <<>>
    BY <2>2, <1>t
  <2>5. ASSUME NEW i \in 1..Len(stdout')
        PROVE  IF i = 1 THEN stdout'[i] = Banner
               ELSE IsReply(stdout'[i]) \/ stdout'[i] = NotDecodable(NoLine)
    <3>1. CASE i \in 1..Len(stdout)
      BY <2>2, <3>1 DEF WireInv
    <3>2. CASE i = Len(stdout) + 1
      BY <2>1, <2>2, <1>1, <1>t, <3>2
    <3> QED
      BY <2>3, <3>1, <3>2
  <2> QED
    BY <2>4, <2>5, <1>1 DEF WireInv, IsReply, Reply
<1>2. ASSUME UNCHANGED <<kind, stdout>>, at = "start" <=> at' = "start"
      PROVE  WireInv'
  BY <1>2 DEF WireInv, IsReply, Reply
<1>3. CASE PublishVersion
  <2>1. stdout' = <<Banner>> /\ at' # "start"
    BY <1>3 DEF PublishVersion, WriteResult, WireInv
  <2> QED
    BY <2>1 DEF WireInv
<1>4. CASE RejectLine
  <2>1. IsReply(NotDecodable(next))
    <3>1. next \in Lines /\ kind[next] = "invalid"
      BY <1>4, <1>t DEF RejectLine
    <3>2. (kind[next] \in {"invalid", "opaque", "raise"}) = TRUE
      BY <3>1
    <3> QED
      BY <3>1, <3>2 DEF NotDecodable, IsReply, Reply
  <2> QED
    BY <1>4, <1>1, <2>1 DEF RejectLine, WriteResult
<1>5. CASE Answer
  <2>1. next - 1 \in Lines /\ kind[next - 1] # "invalid"
    BY <1>5, <1>t DEF Answer, IInv, RunInv
  <2>2. IsReply(RunResult(next - 1))
    <3>1. CASE kind[next - 1] = "opaque"
      BY <3>1, <2>1 DEF RunResult, IsReply, Reply, NotDecodable
    <3>2. CASE kind[next - 1] # "opaque"
      BY <3>2, <2>1 DEF RunResult, IsReply, Reply
    <3> QED
      BY <3>1, <3>2
  <2> QED
    BY <1>5, <1>1, <2>2 DEF Answer, WriteResult
<1>6. CASE EmptyLine
  BY <1>6, <1>1 DEF EmptyLine, WriteResult
<1>7. CASE \/ ClientSends \/ ClientCloses \/ ClientReads \/ LoopReads \/ LoopWrites
           \/ Suspend \/ Resume \/ TakeLine \/ Overrun \/ UNCHANGED vars
  BY <1>7, <1>2 DEF ClientSends, ClientCloses, ClientReads, LoopReads, LoopWrites, Suspend,
     Resume, TakeLine, Overrun, output, vars
<1> QED
  BY <1>3, <1>4, <1>5, <1>6, <1>7 DEF Next, Coroutine

\* The client reads a prefix of what was written.
LEMMA Prefix ==
    ASSUME NEW s \in Seq(Response), NEW n \in 0..Len(s)
    PROVE  /\ SubSeq(s, 1, n) \in Seq(Response)
           /\ Len(SubSeq(s, 1, n)) = n
           /\ \A i \in 1..n : SubSeq(s, 1, n)[i] = s[i]
<1>1. n \in Nat /\ Len(s) \in Nat /\ n <= Len(s)
  OBVIOUS
<1>2. \A i \in 1..n : s[i] \in Response
  BY <1>1
<1> QED
  BY <1>1, <1>2

LEMMA RefinementInit == Init => Service!ServiceInit
<1> SUFFICES ASSUME Init
             PROVE  Service!ServiceInit
  OBVIOUS
<1>1. SubSeq(stdout, 1, read) = <<>> /\ next - 1 = 0
  BY DEF Init
<1>2. \A r \in Due : r \in UNION {{Service!Result(l), Service!Failure(l), Service!Anonymous(l)}
                                    : l \in Lines}
  <2> SUFFICES ASSUME NEW l \in Lines
               PROVE  Reply(l) \in {Service!Result(l), Service!Failure(l), Service!Anonymous(l)}
    BY DEF Due
  <2>1. CASE kind[l] \in {"invalid", "opaque"}
    <3>1. (kind[l] \in {"invalid", "opaque", "raise"}) = TRUE
      BY <2>1
    <3> QED
      BY <2>1, <3>1 DEF Reply, Service!Anonymous
  <2>2. CASE kind[l] = "raise"
    <3>1. kind[l] \notin {"invalid", "opaque"} /\ (kind[l] \in {"invalid", "opaque", "raise"}) = TRUE
      BY <2>2
    <3> QED
      BY <3>1 DEF Reply, Service!Failure
  <2>3. CASE kind[l] \notin {"invalid", "opaque", "raise"}
    <3>1. kind[l] \notin {"invalid", "opaque"} /\ (kind[l] \in {"invalid", "opaque", "raise"}) = FALSE
      BY <2>3
    <3> QED
      BY <3>1 DEF Reply, Service!Result
  <2> QED
    BY <2>1, <2>2, <2>3
<1>3. \A r, s \in Due : r.line = s.line => r = s
  BY DEF Due, Reply
<1>4. Due \in SUBSET UNION {{Service!Result(l), Service!Failure(l), Service!Anonymous(l)}
                              : l \in Lines}
  BY <1>2
<1> QED
  BY <1>1, <1>3, <1>4 DEF Service!ServiceInit, Service!Lines, Due, Reply

\* The client reads the version, noise, or a reply that is due and that it
\* has not read before.
LEMMA ReadAnswers ==
    ASSUME IInv, WireInv, ClientReads
    PROVE  [Service!ServiceNext]_(Service!svars)
<1> DEFINE n == read + 1
<1>0. /\ read \in Nat /\ n \in 1..Len(stdout) /\ next \in Nat
      /\ stdout \in Seq(Response) /\ Len(stdout) \in Nat
      /\ \A i \in 1..Len(stdout) : stdout[i].line \in 0..N
      /\ read' = n /\ UNCHANGED <<stdout, kind, next>>
  BY LineType DEF IInv, TypeOK, ClientReads, output
<1>1. /\ Readable \in Seq(Response) /\ Len(Readable) = read
      /\ \A i \in 1..read : Readable[i] = stdout[i]
  BY <1>0, Prefix DEF Readable
<1>2. /\ Readable' \in Seq(Response) /\ Len(Readable') = n
      /\ \A i \in 1..n : Readable'[i] = stdout[i]
  BY <1>0, Prefix DEF Readable
<1>3. SubSeq(Readable', 1, read) = Readable
  <2>1. /\ SubSeq(Readable', 1, read) \in Seq(Response)
        /\ Len(SubSeq(Readable', 1, read)) = read
        /\ \A i \in 1..read : SubSeq(Readable', 1, read)[i] = Readable'[i]
    BY <1>0, <1>2, Prefix
  <2>2. \A i \in 1..read : Readable'[i] = stdout[i]
    BY <1>0, <1>2
  <2> QED
    BY <2>1, <2>2, <1>1, SeqEqual
<1>4. CASE n = 1
  <2>1. Readable'[1] = Service!Version
    BY <1>0, <1>2, <1>4 DEF WireInv, Banner, Service!Version, Service!NoLine
  <2>2. Service!Fits(1)
    BY <2>1 DEF Service!Fits, Readable
  <2> QED
    BY <1>0, <1>1, <1>2, <1>3, <1>4, <2>2 DEF Service!ServiceNext, Service!Answer, Readable
<1>5. CASE n # 1
  <2>1. Readable'[n] = stdout[n]
    BY <1>0, <1>2
  <2>2. ASSUME stdout[n] = NotDecodable(NoLine)
        PROVE  Service!Fits(n)
    <3>1. Readable'[n] = Service!Noise
      BY <2>1, <2>2 DEF NotDecodable, Service!Noise, Service!NoLine
    <3> QED
      BY <3>1, <1>5 DEF Service!Fits, Readable
  <2>3. ASSUME IsReply(stdout[n])
        PROVE  Service!Fits(n)
    <3>1. /\ stdout[n] = Reply(stdout[n].line) /\ stdout[n].line \in Lines
          /\ stdout[n].line < next /\ kind[stdout[n].line] \notin {"endless", "long"}
      BY <2>3, <1>0 DEF IsReply, IInv, StdoutInv
    <3>2. stdout[n] \in Due /\ stdout[n].line <= next - 1
      BY <3>1, <1>0 DEF Due
    <3>3. ASSUME NEW j \in 1..(n - 1)
          PROVE  Readable'[j] # Readable'[n]
      <4>1. j \in 1..Len(stdout) /\ j < n /\ Readable'[j] = stdout[j]
        BY <1>0, <1>2
      <4>2. stdout[n].line # NoLine
        BY <3>1, LineType
      <4>3. stdout[j].line # stdout[n].line
        <5>1. AnsweredInOrder
          BY DEF IInv
        <5>2. stdout[j].line # NoLine => stdout[j].line < stdout[n].line
          BY <4>1, <4>2, <5>1, <1>0 DEF AnsweredInOrder
        <5> HIDE DEF n
        <5> QED
          BY <5>2, <4>1, <4>2, <1>0
      <4>4. stdout[j] # stdout[n]
        BY <4>3
      <4> QED
        BY <4>1, <4>4, <2>1
    <3> HIDE DEF n
    <3> QED
      BY <2>1, <3>2, <3>3, <1>5 DEF Service!Fits, Readable, Due, Reply
  <2>4. Service!Fits(n)
    BY <2>2, <2>3, <1>0, <1>5 DEF WireInv
  <2>5. \A i \in (Len(Readable) + 1)..Len(Readable') : i = n
    BY <1>0, <1>1, <1>2
  <2>6. Len(Readable') > Len(Readable)
    BY <1>0, <1>1, <1>2
  <2>7. Service!Answer
    BY <1>0, <1>1, <1>3, <2>4, <2>5, <2>6 DEF Service!Answer, Readable
  <2> QED
    BY <2>7 DEF Service!ServiceNext
<1> QED
  BY <1>4, <1>5

\* Every step but a read takes a line or is invisible to the service.
LEMMA RefinementStep ==
    IInv /\ WireInv /\ [Next]_vars => [Service!ServiceNext]_(Service!svars)
<1> SUFFICES ASSUME IInv, WireInv, [Next]_vars
             PROVE  [Service!ServiceNext]_(Service!svars)
  OBVIOUS
<1>t. /\ TypeOK /\ next \in 1..(arrived + 1) /\ arrived \in 0..N
      /\ stdout \in Seq(Response) /\ read \in 0..Len(stdout) /\ Len(stdout) \in Nat
  BY DEF IInv, TypeOK
<1>1. ASSUME UNCHANGED <<stdout, read>>
      PROVE  Readable' = Readable
  BY <1>1 DEF Readable
<1>2. ASSUME NEW r \in Response, stdout' = Append(stdout, r), read' = read
      PROVE  Readable' = Readable
  <2>1. /\ stdout' \in Seq(Response) /\ read \in 0..Len(stdout')
        /\ \A i \in 1..read : stdout'[i] = stdout[i]
    BY <1>2, <1>t
  <2>2. /\ Readable \in Seq(Response) /\ Len(Readable) = read
        /\ \A i \in 1..read : Readable[i] = stdout[i]
    BY <1>t, Prefix DEF Readable
  <2>3. /\ Readable' \in Seq(Response) /\ Len(Readable') = read
        /\ \A i \in 1..read : Readable'[i] = stdout'[i]
    BY <1>2, <2>1, Prefix DEF Readable
  <2> QED
    BY <2>1, <2>2, <2>3, SeqEqual
<1>3. ASSUME UNCHANGED <<kind, next>>, Readable' = Readable
      PROVE  [Service!ServiceNext]_(Service!svars)
  BY <1>3 DEF Service!svars, Readable
<1>4. ASSUME next \in Lines, next' = next + 1, Readable' = Readable, kind' = kind
      PROVE  [Service!ServiceNext]_(Service!svars)
  <2>1. next - 1 < N /\ (next - 1)' = next - 1 + 1
    BY <1>4, <1>t
  <2>2. Service!TakeLine
    BY <1>4, <2>1 DEF Service!TakeLine, Readable
  <2> QED
    BY <2>2 DEF Service!ServiceNext
<1>5. CASE ClientReads
  BY <1>5, ReadAnswers
<1>6. CASE ClientSends \/ ClientCloses \/ LoopReads \/ LoopWrites \/ Suspend \/ Resume \/ Overrun
  BY <1>6, <1>1, <1>3 DEF ClientSends, ClientCloses, LoopReads, LoopWrites, Suspend, Resume,
     Overrun, client, output
<1>7. CASE PublishVersion
  BY <1>7, <1>2, <1>3, ResponseType DEF PublishVersion, WriteResult, client
<1>8. CASE RejectLine
  <2>1. next \in Lines /\ NotDecodable(next) \in Response
    BY <1>8, <1>t, ResponseType DEF RejectLine
  <2> QED
    BY <1>8, <2>1, <1>2, <1>4 DEF RejectLine, WriteResult, client
<1>9. CASE TakeLine
  BY <1>9, <1>1, <1>4, <1>t DEF TakeLine, client, output
<1>10. CASE Answer
  <2>1. next - 1 \in Lines
    BY <1>10, <1>t DEF Answer, IInv, RunInv
  <2>2. RunResult(next - 1) \in Response
    BY <2>1, <1>t, ResponseType
  <2> QED
    BY <1>10, <2>2, <1>2, <1>3 DEF Answer, WriteResult, client
<1>11. CASE EmptyLine
  BY <1>11, <1>2, <1>3, ResponseType DEF EmptyLine, WriteResult, client
<1>12. CASE UNCHANGED vars
  BY <1>12, <1>1, <1>3 DEF vars
<1> QED
  BY <1>5, <1>6, <1>7, <1>8, <1>9, <1>10, <1>11, <1>12 DEF Next, Coroutine

\* The event-loop server implements the abstract service: the client reads
\* the version, then noise and replies due to lines taken, each under its own
\* id (0 where the code says so) and none twice (server.py:190-233).
THEOREM Refinement == Spec => ImplementsService
BY RefinementInit, RefinementStep, Invariance, WireInit, WireStep,
   PTL DEF Spec, ImplementsService, Service!ServiceSpec
=============================================================================
