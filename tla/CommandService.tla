--------------------------- MODULE CommandService ---------------------------
(***************************************************************************)
(* What the client of a dothttp server relies on, whatever server type is  *)
(* behind the pipe (dotextensions/server/server.py).  The client reads a   *)
(* sequence of responses.  The first is the version; every other one is    *)
(* the response due to a line the server has taken, with the id the client *)
(* gave to that line (0, and an error, for what could not be decoded), or  *)
(* noise that answers no line.  No line is answered twice, and a server    *)
(* that has stopped owes no response that was due.                         *)
(***************************************************************************)
EXTENDS Integers, Sequences

CONSTANTS
    N,        \* the client has at most N lines to send
    IdOf      \* the id the client put into each line

Lines == 1..N
NoLine == 0

Version == [line |-> NoLine, id |-> -1, error |-> FALSE]
Noise == [line |-> NoLine, id |-> 0, error |-> TRUE]

\* What may be due to a line: its result, an error under its id, or an error
\* the client can only attribute to "some line".
Result(l) == [line |-> l, id |-> IdOf[l], error |-> FALSE]
Failure(l) == [line |-> l, id |-> IdOf[l], error |-> TRUE]
Anonymous(l) == [line |-> l, id |-> 0, error |-> TRUE]

VARIABLES
    due,      \* the responses due, fixed from the start
    taken,    \* how many lines have been taken from the client
    answers,  \* the responses the client can read, in their order
    stopped   \* the server has ended

svars == <<due, taken, answers, stopped>>

Delivered == {answers[i] : i \in 1..Len(answers)}

ServiceInit ==
    /\ due \in SUBSET UNION {{Result(l), Failure(l), Anonymous(l)} : l \in Lines}
    /\ \A r, s \in due : r.line = s.line => r = s
    /\ taken = 0
    /\ answers = <<>>
    /\ stopped = FALSE

\* The next line is taken; its answer comes later.
TakeLine ==
    /\ ~stopped
    /\ taken < N
    /\ taken' = taken + 1
    /\ UNCHANGED <<due, answers, stopped>>

\* What may come next on the wire: the version, and nothing else, comes
\* first; then responses that are due and were not given before, or noise.
Fits(i) ==
    LET r == answers'[i] IN
    IF i = 1 THEN r = Version
    ELSE \/ r = Noise
         \/ /\ r \in due
            /\ r.line <= taken
            /\ \A j \in 1..(i - 1) : answers'[j] # r

\* One or more responses become readable together.
Answer ==
    /\ ~stopped
    /\ Len(answers') > Len(answers)
    /\ SubSeq(answers', 1, Len(answers)) = answers
    /\ \A i \in (Len(answers) + 1)..Len(answers') : Fits(i)
    /\ UNCHANGED <<due, taken, stopped>>

\* The server ends only when nothing is owed.
Stop ==
    /\ ~stopped
    /\ \A r \in due : r.line <= taken => r \in Delivered
    /\ stopped' = TRUE
    /\ UNCHANGED <<due, taken, answers>>

ServiceNext == TakeLine \/ Answer \/ Stop

ServiceSpec == ServiceInit /\ [][ServiceNext]_svars
=============================================================================
