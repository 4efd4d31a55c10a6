------------------------------ MODULE FsHandlers ------------------------------
(***************************************************************************)
(* The /fs handlers of the server (fs_handlers.py) on a file system that   *)
(* several pool threads use at once, with the calls of shutil they make,   *)
(* one action per system call that other threads can see.  The process may *)
(* be killed at any time; what is on the disk stays.  The system may       *)
(* refuse a call (permissions, a full or another disk): CallFails.         *)
(*                                                                         *)
(* A path is a sequence of names, tree maps the paths that exist to Dir or *)
(* to a file, and data maps files to their bytes.  The path-based rmtree   *)
(* is modelled, os.makedirs and an os.scandir are one step, and links are  *)
(* left out.                                                               *)
(***************************************************************************)
EXTENDS Integers, Sequences, FiniteSets, SequencesExt, Functions, TLC

CONSTANTS
    Nothing,     \* absent
    Dir,         \* what a directory is in tree
    Files,       \* bound: the files there can be
    Threads,     \* the threads of the pool
    Ops,         \* the commands the client may send
    Bad,         \* content that base64 cannot decode
    FirstTree,   \* the tree the server finds
    FirstData,   \* and what its files hold
    MaxOps,      \* bound: commands sent
    MaxMishaps   \* bound: calls the system refuses and times the process is killed

ASSUME FsHandlersAssumption ==
    /\ MaxOps \in Nat
    /\ MaxMishaps \in Nat
    /\ Dir \notin Files
    /\ Nothing \notin Files \cup {Dir} /\ Nothing \notin Ops
    /\ Nothing # [error |-> TRUE, gives |-> {}]
    /\ \A o \in Ops :
          /\ o.kind \in {"write", "read", "create-directory", "read-directory", "stat",
                        "delete", "copy", "rename"}
          /\ o.path \in Seq(STRING) \ {<<>>} /\ o.to \in Seq(STRING)
          /\ o.kind = "write" => o.content = Bad \/ o.content \in Seq(Int)
    \* a tree: what is above a path is a directory, and files have one path
    /\ \A p \in DOMAIN FirstTree :
          /\ p \in Seq(STRING) \ {<<>>}
          /\ FirstTree[p] \in Files \cup {Dir}
          /\ Len(p) > 1 => /\ SubSeq(p, 1, Len(p) - 1) \in DOMAIN FirstTree
                           /\ FirstTree[SubSeq(p, 1, Len(p) - 1)] = Dir
          /\ \A q \in DOMAIN FirstTree : FirstTree[p] = FirstTree[q] /\ FirstTree[p] # Dir => p = q
    /\ FirstData \in [Files -> Seq(Int)]

VARIABLES
    tree,     \* the paths that exist
    data,     \* the bytes of each file
    thread,   \* what each thread is doing
    spoiled,  \* files left behind by a write that failed, overlapped or was killed
    ops,      \* commands sent so far
    mishaps   \* calls refused and times the process was killed so far

fsVars == <<tree, data, thread, spoiled, ops, mishaps>>

\* to is the path a command works on or towards; source and dest, from and into
\* are the paths and the open files of a copy, offset what it has copied, and
\* then what it is a part of.
Idle(answer) ==
    [at |-> "idle", op |-> Nothing, to |-> <<>>, source |-> <<>>, dest |-> <<>>,
     from |-> Nothing, into |-> Nothing, offset |-> 0, then |-> "answer", todo |-> {},
     before |-> Nothing, touched |-> FALSE, refused |-> FALSE, answer |-> answer]

-----------------------------------------------------------------------------
Exists(p) == p \in DOMAIN tree
IsDir(p) == p = <<>> \/ (Exists(p) /\ tree[p] = Dir)
IsFile(p) == Exists(p) /\ tree[p] # Dir
Parent(p) == SubSeq(p, 1, Len(p) - 1)
Under(p, q) == Len(p) > Len(q) /\ SubSeq(p, 1, Len(q)) = q
Children(d) == {p \in DOMAIN tree : Len(p) = Len(d) + 1 /\ Under(p, d)}
Into(source, dest) == IF IsDir(dest) THEN Append(dest, source[Len(source)]) ELSE dest

\* open(p, "wb") can be done.
Writable(p) == ~IsDir(p) /\ IsDir(Parent(p))

InUse == {tree[p] : p \in DOMAIN tree} \cup {thread[t].from : t \in Threads}
                                       \cup {thread[t].into : t \in Threads}

\* The file that open(p, "wb") opens: the one at p, or a new one, if the bound
\* leaves one.
Opened(p) == IF IsFile(p) THEN tree[p] ELSE CHOOSE f \in Files : f \notin InUse
Room(p) == IsFile(p) \/ Files \ InUse # {}

Place(S, what) == tree' = [p \in DOMAIN tree \cup S |-> IF p \in S THEN what ELSE tree[p]]
RemovePaths(S) == tree' = [p \in DOMAIN tree \ S |-> tree[p]]

\* What a client sees of the disk.
View == [p \in DOMAIN tree |-> IF tree[p] = Dir THEN Dir ELSE data[tree[p]]]

Busy(t) == thread[t].at # "idle"
Writers(f) == {t \in Threads : thread[t].into = f}

-----------------------------------------------------------------------------
FSInit ==
    /\ tree = FirstTree
    /\ data = FirstData
    /\ thread = [t \in Threads |-> Idle(Nothing)]
    /\ spoiled = {}
    /\ ops = 0
    /\ mishaps = 0

\* A pool thread takes a command.  before is kept as long as it runs alone.
Begin(t) ==
    /\ ~Busy(t)
    /\ ops < MaxOps
    /\ ops' = ops + 1
    /\ \E o \in Ops :
          thread' = [u \in Threads |->
              IF u = t
              THEN [Idle(Nothing) EXCEPT
                       !.at = o.kind, !.op = o, !.to = o.path,
                       !.before = IF \E v \in Threads : Busy(v) THEN Nothing ELSE View]
              ELSE [thread[u] EXCEPT !.before = Nothing]]
    /\ UNCHANGED <<tree, data, spoiled, mishaps>>

\* Answers are an error or success, with what was read.
Gives(what) == [error |-> FALSE, gives |-> what]
Ok == Gives({})
Error == [error |-> TRUE, gives |-> {}]

Becomes(t, fields) == thread' = [thread EXCEPT ![t] = fields]

Answers(t, answer) ==
    /\ Becomes(t, Idle(answer))
    /\ UNCHANGED ops

\* An exception becomes an answer.
Refuses(t) ==
    /\ Answers(t, Error)
    /\ UNCHANGED <<tree, data, spoiled>>

Continues(t, fields) == Becomes(t, fields) /\ UNCHANGED ops

-----------------------------------------------------------------------------
\* The files being copied from f with a part of it read.
HalfCopied(f) == {thread[u].into : u \in {v \in Threads : thread[v].from = f /\ thread[v].offset > 0}}

\* open(p, "wb"): the file is emptied, or made.
OpenForWriting(t, p, next) ==
    LET f == Opened(p) IN
    /\ Writable(p) /\ Room(p)
    /\ Place({p}, f)
    /\ data' = [data EXCEPT ![f] = <<>>]
    /\ spoiled' = HalfCopied(f) \cup IF Writers(f) = {} THEN spoiled \ {f} ELSE spoiled \cup {f}
    /\ Continues(t, [thread[t] EXCEPT !.at = next, !.into = f, !.touched = TRUE])

\* What a write of bytes at an offset leaves of a file that held old.
Over(bytes, offset, old) ==
    [i \in 1..(IF Len(old) > offset + Len(bytes) THEN Len(old) ELSE offset + Len(bytes)) |->
        CASE i > offset /\ i <= offset + Len(bytes) -> bytes[i - offset]
          [] i <= offset /\ i > Len(old) -> 0
          [] OTHER -> old[i]]

\* Wrong variant: open(to, "r+b"): what the file held is written over.
WriteInPlace(t) ==
    LET p == thread[t].to IN
    /\ thread[t].at = "write"
    /\ \/ /\ Writable(p) /\ Room(p)
          /\ Place({p}, Opened(p))
          /\ spoiled' = spoiled \ {Opened(p)}
          /\ data' = IF IsFile(p) THEN data ELSE [data EXCEPT ![Opened(p)] = <<>>]
          /\ Continues(t, [thread[t] EXCEPT !.at = "decode", !.into = Opened(p), !.touched = TRUE])
       \/ ~Writable(p) /\ Refuses(t)

\* /fs/write opens the file before it decodes the content.
WriteOpen(t) ==
    /\ thread[t].at = "write"
    /\ \/ OpenForWriting(t, thread[t].to, "decode")
       \/ ~Writable(thread[t].to) /\ Refuses(t)

\* Wrong variant: what cannot be decoded is written as far as it goes.
WriteWhatDecodes(t) ==
    LET content == IF thread[t].op.content = Bad THEN <<0>> ELSE thread[t].op.content IN
    /\ thread[t].at = "decode"
    /\ data' = [data EXCEPT ![thread[t].into] = Over(content, 0, @)]
    /\ Answers(t, Ok)
    /\ UNCHANGED <<tree, spoiled>>

WriteContent(t) ==
    LET f == thread[t].into
        content == thread[t].op.content
    IN /\ thread[t].at = "decode"
       /\ \/ /\ content = Bad
             /\ spoiled' = spoiled \cup {f}
             /\ Answers(t, Error)
             /\ UNCHANGED <<tree, data>>
          \/ /\ content # Bad
             /\ data' = [data EXCEPT ![f] = Over(content, 0, @)]
             /\ spoiled' = IF Writers(f) = {t} THEN spoiled ELSE spoiled \cup {f}
             /\ Answers(t, Ok)
             /\ UNCHANGED tree

ReadOpen(t) ==
    /\ thread[t].at = "read"
    /\ \/ /\ IsFile(thread[t].to)
          /\ Continues(t, [thread[t] EXCEPT !.at = "reading", !.from = tree[thread[t].to]])
          /\ UNCHANGED <<tree, data, spoiled>>
       \/ ~IsFile(thread[t].to) /\ Refuses(t)

ReadContent(t) ==
    /\ thread[t].at = "reading"
    /\ Answers(t, Gives({data[thread[t].from]}))
    /\ UNCHANGED <<tree, data, spoiled>>

CreateDirectory(t) ==
    LET p == thread[t].to
        possible == ~Exists(p) /\ IsDir(Parent(p))
    IN /\ thread[t].at = "create-directory"
       /\ \/ /\ possible
             /\ Place({p}, Dir)
             /\ Answers(t, Ok)
             /\ UNCHANGED <<data, spoiled>>
          \/ ~possible /\ Refuses(t)

ReadDirectory(t) ==
    /\ thread[t].at = "read-directory"
    /\ \/ IsDir(thread[t].to) /\ Answers(t, Gives(Children(thread[t].to)))
       \/ ~IsDir(thread[t].to) /\ Answers(t, Error)
    /\ UNCHANGED <<tree, data, spoiled>>

Stat(t) ==
    /\ thread[t].at = "stat"
    /\ \/ Exists(thread[t].to) /\ Answers(t, Ok)
       \/ ~Exists(thread[t].to) /\ Answers(t, Error)
    /\ UNCHANGED <<tree, data, spoiled>>

-----------------------------------------------------------------------------
RemovesTree(t, p) ==
    [thread[t] EXCEPT !.at = "rmtree", !.todo = {[path |-> p, kind |-> "dir"]}]

\* os.path.isfile decides between remove and rmtree.
DeleteTest(t) ==
    LET p == thread[t].to IN
    /\ thread[t].at = "delete"
    /\ Continues(t, IF IsFile(p) THEN [thread[t] EXCEPT !.at = "remove"]
                    ELSE RemovesTree(t, p))
    /\ UNCHANGED <<tree, data, spoiled>>

\* Wrong variant: whatever is there by now is removed.
RemoveAnything(t) ==
    LET p == thread[t].to IN
    /\ thread[t].at = "remove"
    /\ RemovePaths({q \in DOMAIN tree : q = p \/ Under(q, p)})
    /\ Answers(t, IF Exists(p) /\ tree[p] = Dir THEN Error ELSE Ok)
    /\ UNCHANGED <<data, spoiled>>

\* Wrong variant: a file that is gone is waited for.
RemoveFileOnly(t) ==
    /\ thread[t].at = "remove"
    /\ IsFile(thread[t].to)
    /\ RemovePaths({thread[t].to})
    /\ Answers(t, Ok)
    /\ UNCHANGED <<data, spoiled>>

\* os.remove, also the unlink that ends a move.
RemoveFile(t) ==
    LET p == IF thread[t].op.kind = "rename" THEN thread[t].op.path ELSE thread[t].to IN
    /\ thread[t].at = "remove"
    /\ \/ IsFile(p) /\ RemovePaths({p}) /\ Answers(t, Ok) /\ UNCHANGED <<data, spoiled>>
       \/ ~IsFile(p) /\ Refuses(t)

\* One call of rmtree, which goes by what it listed: it unlinks a file, lists
\* a directory, or removes one it is through with.
RemoveTreeStep(t) ==
    /\ thread[t].at = "rmtree"
    /\ \E e \in thread[t].todo :
          LET left == thread[t].todo \ {e}
              later == [thread[t] EXCEPT !.todo = left, !.touched = TRUE]
          IN \/ /\ e.kind = "file"
                /\ \/ IsFile(e.path) /\ RemovePaths({e.path}) /\ Continues(t, later)
                                     /\ UNCHANGED <<data, spoiled>>
                   \/ ~IsFile(e.path) /\ Refuses(t)
             \/ /\ e.kind = "dir"
                /\ \/ /\ IsDir(e.path)
                      /\ Continues(t, [thread[t] EXCEPT !.todo =
                            left \cup {[e EXCEPT !.kind = "listed"]}
                                 \cup {[path |-> c, kind |-> IF IsDir(c) THEN "dir" ELSE "file"] :
                                        c \in Children(e.path)}])
                      /\ UNCHANGED <<tree, data, spoiled>>
                   \/ ~IsDir(e.path) /\ Refuses(t)
             \/ /\ e.kind = "listed"
                /\ \A x \in left : ~Under(x.path, e.path)
                /\ \/ /\ IsDir(e.path) /\ Children(e.path) = {}
                      /\ RemovePaths({e.path})
                      /\ IF left = {} THEN Answers(t, Ok) ELSE Continues(t, later)
                      /\ UNCHANGED <<data, spoiled>>
                   \/ ~(IsDir(e.path) /\ Children(e.path) = {}) /\ Refuses(t)

-----------------------------------------------------------------------------
\* copy2 of a file, as a part of what then names.
Copying(self, source, dest, then) ==
    [self EXCEPT !.at = "copy-open", !.source = source, !.dest = dest, !.from = tree[source],
                 !.then = then]

\* copytree goes on when one of its files is copied, or could not be.
BackInTree(self) ==
    [self EXCEPT !.at = "copytree", !.source = <<>>, !.dest = <<>>, !.from = Nothing,
                 !.into = Nothing, !.offset = 0]

CopyFails(t, self) ==
    IF self.then = "copytree" THEN Continues(t, [BackInTree(self) EXCEPT !.answer = Error])
                              ELSE Answers(t, Error)

\* A directory as destination means the file of that name in it.
CopyTest(t) ==
    LET source == thread[t].op.path
        dest == Into(source, thread[t].op.to)
        copyable == IsFile(source) /\ source # dest
    IN /\ thread[t].at = "copy"
       /\ \/ /\ copyable
             /\ Continues(t, Copying(thread[t], source, dest, "answer"))
             /\ UNCHANGED <<tree, data, spoiled>>
          \/ ~copyable /\ Refuses(t)

CopyOpen(t) ==
    LET dest == thread[t].dest IN
    /\ thread[t].at = "copy-open"
    /\ \/ OpenForWriting(t, dest, "copy-data")
       \/ ~Writable(dest) /\ CopyFails(t, thread[t]) /\ UNCHANGED <<tree, data, spoiled>>

\* What t copies at this moment is of one content, and nobody else's.
CopiesAlone(t) ==
    /\ Writers(thread[t].into) = {t}
    /\ Writers(thread[t].from) = {}
    /\ thread[t].from \notin spoiled

SpoilsUnless(t, whole) == spoiled' = IF whole THEN spoiled ELSE spoiled \cup {thread[t].into}

\* One sendfile: some of the bytes the source holds by now.
CopyPiece(t) ==
    LET self == thread[t]
        bytes == data[self.from]
    IN /\ self.at = "copy-data"
       /\ \E end \in self.offset + 1 .. Len(bytes) :
             /\ data' = [data EXCEPT ![self.into] =
                            Over(SubSeq(bytes, self.offset + 1, end), self.offset, @)]
             /\ Continues(t, [self EXCEPT !.offset = end])
       /\ SpoilsUnless(t, CopiesAlone(t))
       /\ UNCHANGED tree

CopyEnd(t) ==
    /\ thread[t].at = "copy-data"
    /\ thread[t].offset >= Len(data[thread[t].from])
    /\ SpoilsUnless(t, CopiesAlone(t))
    /\ Continues(t, [thread[t] EXCEPT !.at = "copy-stat", !.from = Nothing, !.into = Nothing,
                                      !.offset = 0])
    /\ UNCHANGED <<tree, data>>

\* copystat, by name: the times and the mode of what is at source by now go to
\* what is at dest.  A move that had to copy goes on to remove its source.
CopyStat(t) ==
    LET self == thread[t]
        found == Exists(self.source) /\ Exists(self.dest)
    IN /\ self.at = "copy-stat"
       /\ \/ found /\ self.then = "answer" /\ Answers(t, Ok)
          \/ found /\ self.then = "remove" /\ Continues(t, [self EXCEPT !.at = "remove"])
          \/ found /\ self.then = "copytree" /\ Continues(t, BackInTree(self))
          \/ ~found /\ CopyFails(t, self)
       /\ UNCHANGED <<tree, data, spoiled>>

-----------------------------------------------------------------------------
\* shutil.move: into a directory under the old name, never over what is there.
RenameTest(t) ==
    LET source == thread[t].op.path
        dest == thread[t].op.to
        real == IF source = dest THEN dest ELSE Into(source, dest)
        taken == IsDir(dest) /\ source # dest /\ Exists(real)
    IN /\ thread[t].at = "rename"
       /\ \/ /\ ~taken
             /\ Continues(t, [thread[t] EXCEPT !.at = "renaming", !.to = real])
             /\ UNCHANGED <<tree, data, spoiled>>
          \/ taken /\ Refuses(t)

\* What os.rename makes of the tree: dest and what is under it are replaced.
Renamed(source, dest) ==
    LET stays == {p \in DOMAIN tree : p # source /\ ~Under(p, source)}
        moved == {p \in DOMAIN tree : p = source \/ Under(p, source)}
        New(p) == dest \o SubSeq(p, Len(source) + 1, Len(p))
    IN [q \in stays \cup {New(p) : p \in moved} |->
            IF q = dest \/ Under(q, dest)
            THEN tree[source \o SubSeq(q, Len(dest) + 1, Len(q))] ELSE tree[q]]

\* os.rename can be done: a file over a file, a directory over an empty one.
Renamable(source, dest) ==
    /\ Exists(source)
    /\ IsDir(Parent(dest))
    /\ ~Under(dest, source)
    /\ Exists(dest) => /\ IsDir(source) = IsDir(dest)
                       /\ source # dest => Children(dest) = {}

Rename(t) ==
    LET source == thread[t].op.path IN
    /\ thread[t].at = "renaming"
    /\ Renamable(source, thread[t].to)
    /\ tree' = IF source = thread[t].to THEN tree ELSE Renamed(source, thread[t].to)
    /\ Answers(t, Ok)
    /\ UNCHANGED <<data, spoiled>>

\* os.rename has failed: a file is copied and removed, and so is a directory.
ByHand(t, self) ==
    LET source == self.op.path
        copied == Into(source, self.to)
        file == IsFile(source) /\ copied # source
        dir == IsDir(source) /\ self.to # source /\ ~Under(self.to, source)
    IN /\ \/ file /\ Continues(t, Copying(self, source, copied, "remove"))
          \/ dir /\ Continues(t, [self EXCEPT !.at = "copytree",
                                              !.todo = {[path |-> source, kind |-> "dir"]}])
          \/ ~file /\ ~dir /\ Answers(t, Error)
       /\ UNCHANGED <<tree, data, spoiled>>

MoveByHand(t) ==
    /\ thread[t].at = "renaming"
    /\ ~Renamable(thread[t].op.path, thread[t].to)
    /\ ByHand(t, thread[t])

Above(p) == {SubSeq(p, 1, n) : n \in 1..Len(p)}

EntryFails(t, e, left) ==
    IF e.kind = "dir" /\ e.path = thread[t].op.path
    THEN Answers(t, Error) ELSE Continues(t, [left EXCEPT !.answer = Error])

\* One entry of copytree: a directory is made with those above it and listed, a
\* file is copied, and a directory whose entries are through gets its times.
\* The first directory has to be made; other errors are kept, and raised when
\* there is nothing left to copy.
CopyTreeStep(t) ==
    /\ thread[t].at = "copytree"
    /\ \E e \in thread[t].todo :
          LET source == thread[t].op.path
              target == thread[t].to \o SubSeq(e.path, Len(source) + 1, Len(e.path))
              dest == Into(e.path, target)
              left == [thread[t] EXCEPT !.todo = @ \ {e}]
              makeable == IsDir(e.path) /\ ~Exists(target) /\ \A p \in Above(target) : ~IsFile(p)
              copyable == IsFile(e.path) /\ e.path # dest
              through == \A x \in left.todo : ~Under(x.path, e.path)
              found == Exists(e.path) /\ Exists(target)
          IN \/ /\ e.kind = "dir" /\ makeable
                /\ Place({q \in Above(target) : ~Exists(q)}, Dir)
                /\ Continues(t, [left EXCEPT !.touched = TRUE, !.todo =
                        @ \cup {[e EXCEPT !.kind = "listed"]}
                          \cup {[path |-> c, kind |-> IF IsDir(c) THEN "dir" ELSE "file"] :
                                 c \in Children(e.path)}])
                /\ UNCHANGED <<data, spoiled>>
             \/ /\ e.kind = "file" /\ copyable
                /\ Continues(t, Copying(left, e.path, dest, "copytree"))
                /\ UNCHANGED <<tree, data, spoiled>>
             \/ /\ e.kind = "listed" /\ through /\ found
                /\ Continues(t, left)
                /\ UNCHANGED <<tree, data, spoiled>>
             \/ /\ CASE e.kind = "dir" -> ~makeable
                     [] e.kind = "file" -> ~copyable
                     [] e.kind = "listed" -> through /\ ~found
                /\ EntryFails(t, e, left)
                /\ UNCHANGED <<tree, data, spoiled>>

CopyTreeEnd(t) ==
    /\ thread[t].at = "copytree"
    /\ thread[t].todo = {}
    /\ \/ thread[t].answer = Error /\ Refuses(t)
       \/ /\ thread[t].answer # Error
          /\ Continues(t, RemovesTree(t, thread[t].op.path))
          /\ UNCHANGED <<tree, data, spoiled>>

-----------------------------------------------------------------------------
\* The system refuses the call a thread makes next, or a write or a copy stops
\* half way: what is in the file by then stays there.  A rename it refuses goes
\* on by hand.  (What os.path tests is as it is: where a test is refused, so is
\* the call after it.)
CallFails(t) ==
    LET self == [thread[t] EXCEPT !.refused = TRUE]
        content == self.op.content
    IN /\ mishaps < MaxMishaps
       /\ mishaps' = mishaps + 1
       /\ \/ /\ self.at \in {"write", "read", "reading", "create-directory", "read-directory",
                             "stat", "remove", "rmtree", "copy"}
             /\ Refuses(t)
          \/ /\ self.at = "decode" /\ content # Bad
             /\ \E n \in 0..Len(content) :
                   data' = [data EXCEPT ![self.into] = Over(SubSeq(content, 1, n), 0, @)]
             /\ spoiled' = spoiled \cup {self.into}
             /\ Answers(t, Error)
             /\ UNCHANGED tree
          \/ /\ self.at \in {"copy-open", "copy-stat"}
             /\ CopyFails(t, self)
             /\ UNCHANGED <<tree, data, spoiled>>
          \/ /\ self.at = "copy-data"
             /\ spoiled' = spoiled \cup {self.into}
             /\ CopyFails(t, self)
             /\ UNCHANGED <<tree, data>>
          \/ self.at = "renaming" /\ ByHand(t, self)
          \/ /\ self.at = "copytree"
             /\ \E e \in self.todo : EntryFails(t, e, [self EXCEPT !.todo = @ \ {e}])
             /\ UNCHANGED <<tree, data, spoiled>>

\* The process is killed: its threads are gone, and files they were writing
\* stay as they are.
Crash ==
    /\ mishaps < MaxMishaps
    /\ mishaps' = mishaps + 1
    /\ spoiled' = spoiled \cup ({thread[t].into : t \in Threads} \ {Nothing})
    /\ thread' = [t \in Threads |-> Idle(Nothing)]
    /\ UNCHANGED <<tree, data, ops>>

SystemCall(t) ==
    /\ \/ WriteOpen(t) \/ WriteContent(t) \/ ReadOpen(t) \/ ReadContent(t)
       \/ CreateDirectory(t) \/ ReadDirectory(t) \/ Stat(t)
       \/ DeleteTest(t) \/ RemoveFile(t) \/ RemoveTreeStep(t)
       \/ CopyTest(t) \/ CopyOpen(t) \/ CopyPiece(t) \/ CopyEnd(t) \/ CopyStat(t)
       \/ RenameTest(t) \/ Rename(t) \/ MoveByHand(t)
       \/ CopyTreeStep(t) \/ CopyTreeEnd(t)
    /\ UNCHANGED mishaps

FSNext == (\E t \in Threads : Begin(t) \/ SystemCall(t) \/ CallFails(t)) \/ Crash

FSSpec == FSInit /\ [][FSNext]_fsVars

\* The pool goes on with what it has taken.
FSFairSpec == FSSpec /\ \A t \in Threads : WF_fsVars(SystemCall(t))

-----------------------------------------------------------------------------
\* Every path that exists has a directory above it, no two paths are the same
\* file, and a thread that writes has a file to write to.
FSTypeOK ==
    /\ \A p \in DOMAIN tree : tree[p] \in Files \cup {Dir} /\ IsDir(Parent(p)) /\ p # <<>>
    /\ \A p, q \in DOMAIN tree : tree[p] = tree[q] /\ tree[p] # Dir => p = q
    /\ data \in [Files -> Seq(Int)]
    /\ \A t \in Threads :
          /\ thread[t].op \in Ops \cup {Nothing}
          /\ Busy(t) <=> thread[t].op # Nothing
          /\ thread[t].at \in {"decode", "copy-data"} <=> thread[t].into # Nothing
          /\ thread[t].at \in {"reading", "copy-open", "copy-data"} <=> thread[t].from # Nothing
          /\ thread[t].offset \in Nat
          /\ thread[t].offset > 0 => thread[t].at = "copy-data"
    /\ spoiled \subseteq Files
    /\ ops \in 0..MaxOps
    /\ mishaps \in 0..MaxMishaps

\* Where a copy or a move of a command ends up, on the disk it finds.
Target(o, disk) ==
    IF o.to = <<>> \/ (o.to \in DOMAIN disk /\ disk[o.to] = Dir)
    THEN Append(o.to, o.path[Len(o.path)]) ELSE o.to

\* What a command is for, on a disk nobody else uses: its answer and the disk
\* it leaves.  Only a write of what cannot be decoded fails and leaves
\* something, an empty file.
Effect(o, disk) ==
    LET Is(p) == p \in DOMAIN disk
        IsD(p) == p = <<>> \/ (Is(p) /\ disk[p] = Dir)
        Below(p) == {q \in DOMAIN disk : q = p \/ Under(q, p)}
        Put(p, what) == (p :> what) @@ disk
        Without(S) == [p \in DOMAIN disk \ S |-> disk[p]]
        target == Target(o, disk)
        refused == <<Error, disk>>
        put == ~IsD(target) /\ IsD(Parent(target))
        moved == [q \in {target \o SubSeq(p, Len(o.path) + 1, Len(p)) : p \in Below(o.path)} |->
                    disk[o.path \o SubSeq(q, Len(target) + 1, Len(q))]]
    IN CASE o.kind = "write" ->
              IF IsD(o.path) \/ ~IsD(Parent(o.path)) THEN refused
              ELSE IF o.content = Bad THEN <<Error, Put(o.path, <<>>)>>
              ELSE <<Ok, Put(o.path, o.content)>>
         [] o.kind = "create-directory" ->
              IF Is(o.path) \/ ~IsD(Parent(o.path)) THEN refused ELSE <<Ok, Put(o.path, Dir)>>
         [] o.kind = "delete" ->
              IF Is(o.path) THEN <<Ok, Without(Below(o.path))>> ELSE refused
         [] o.kind = "copy" ->
              IF Is(o.path) /\ ~IsD(o.path) /\ target # o.path /\ put
              THEN <<Ok, Put(target, disk[o.path])>> ELSE refused
         [] o.kind = "rename" ->
              IF o.path = o.to THEN <<IF Is(o.path) THEN Ok ELSE Error, disk>>
              ELSE IF \/ ~Is(o.path) \/ Under(target, o.path) \/ IsD(target)
                      \/ (IsD(o.to) /\ Is(target))
                      \/ (IsD(o.path) /\ Is(target))
                      \/ (~IsD(o.path) /\ ~IsD(Parent(target)))
                      \/ (\E n \in 1..Len(target) - 1 :
                            Is(SubSeq(target, 1, n)) /\ ~IsD(SubSeq(target, 1, n)))
                   THEN refused
              ELSE <<Ok, moved @@ Without(Below(o.path)) @@
                           [p \in {SubSeq(target, 1, n) : n \in 1..Len(target) - 1} |-> Dir]>>
         [] o.kind = "read" ->
              <<IF Is(o.path) /\ ~IsD(o.path) THEN Gives({disk[o.path]}) ELSE Error, disk>>
         [] o.kind = "read-directory" ->
              <<IF IsD(o.path)
                THEN Gives({p \in DOMAIN disk : Len(p) = Len(o.path) + 1 /\ Under(p, o.path)})
                ELSE Error, disk>>
         [] o.kind = "stat" -> <<IF Is(o.path) THEN Ok ELSE Error, disk>>

\* What a command that is answered with an error, a call of it refused, has
\* left of what was there: all of it but the file it writes and the tree it
\* deletes; what it moves is in its old place or its new one.
Spares(o, disk, after) ==
    LET target == Target(o, disk)
        Keeps(p, q) == q \in DOMAIN after /\ after[q] = disk[p]
    IN \A p \in DOMAIN disk :
          \/ Keeps(p, p)
          \/ o.kind = "write" /\ p = o.path
          \/ o.kind \in {"copy", "rename"} /\ p = target /\ disk[p] # Dir
          \/ o.kind = "delete" /\ (p = o.path \/ Under(p, o.path))
          \/ /\ o.kind = "rename" /\ (p = o.path \/ Under(p, o.path))
             /\ Keeps(p, target \o SubSeq(p, Len(o.path) + 1, Len(p)))

Answering(t) == Busy(t) /\ thread'[t].at = "idle" /\ thread'[t].answer # Nothing

\* A command that no other overlaps does what it is for, with every name it
\* takes (fs_handlers.py:9-171; shutil.move and copy2 have cases the handlers
\* do not mention).  If the system refuses a call of it and it is answered with
\* an error, what was there is still there, and a move has lost nothing.
AloneAsSpecified ==
    [][\A t \in Threads : Answering(t) /\ thread[t].before # Nothing =>
          LET refused == thread[t].refused \/ mishaps' # mishaps IN
          IF refused /\ thread'[t].answer = Error
          THEN Spares(thread[t].op, thread[t].before, View')
          ELSE <<thread'[t].answer, View'>> = Effect(thread[t].op, thread[t].before)]_fsVars

\* However commands overlap and whatever call the system refuses, a command
\* that is answered with an error has changed nothing: but for a write whose
\* content was not decoded or not written to the end, a copy that stopped in
\* the data or could not copy the times (fs_handlers.py:19-22), a tree not
\* removed to the end, and a move that went on by hand.
ErrorsAreClean ==
    [][\A t \in Threads : Answering(t) /\ thread'[t].answer = Error =>
          /\ View' = View \/ (thread[t].at = "decode" /\ mishaps' # mishaps)
          /\ \/ ~thread[t].touched
             \/ thread[t].at \in {"decode", "copy-data", "copy-stat", "rmtree"}
             \/ thread[t].op.kind = "rename"]_fsVars

Whole == {FirstData[f] : f \in Files} \cup {o.content : o \in {x \in Ops : x.kind = "write"}}

\* A file holds what some write was given, all of it, or it is being written,
\* or a write or copy to it failed, was killed, or overlapped with another, or
\* what it copies was written meanwhile (fs_handlers.py:19, 39, 81-82).
FilesAreWhole ==
    \A p \in DOMAIN tree :
        IsFile(p) /\ tree[p] \notin spoiled /\ Writers(tree[p]) = {} =>
            data[tree[p]] \in Whole

\* A command is answered, whatever the others do to its files meanwhile,
\* unless the process is killed.
EveryCommandIsAnswered == \A t \in Threads : Busy(t) ~> ~Busy(t)
=============================================================================
