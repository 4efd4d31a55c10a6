----------------------------- MODULE PostmanFiles -----------------------------
(***************************************************************************)
(* Imports of Postman collections and of HTTP archives into a directory,   *)
(* and the export of a directory as a collection (postman2http.py:60-119,  *)
(* 456-504; har2httphandler.py:96-163; http2postman.py:104-108, 156-188).  *)
(*                                                                         *)
(* A collection is the sequence of its folders in the order in which       *)
(* import_items comes to them, the collection itself first.  A folder has  *)
(* a place, its cleaned names from the collection down, the folder above   *)
(* it, maybe an authentication, and requests.  A request is "plain",       *)
(* "noauth", one whose import raises, or one that cannot be formatted.     *)
(* What a file holds is the set of definitions written to it.              *)
(***************************************************************************)
EXTENDS Integers, Sequences, FiniteSets, SequencesExt

CONSTANTS
    None,       \* absent
    Imports,    \* the commands, which different threads may run
    Wanted,     \* Wanted[i]: what import i is given
    FirstDisk,  \* the files there are, and what they hold
    Hidden,     \* names that begin with a dot
    HttpNames,  \* names that end in .http or .dhttp
    Bracketed,  \* names of directories with brackets, which glob takes for a pattern
    Unparsable, \* names of definitions whose text the parser does not take
    MaxTime,    \* bound: seconds that pass
    MaxFaults   \* bound: files that cannot be written

\* A definition has its authentication from the one it extends, or its own.
Extending(d) == d.base \in BOOLEAN /\ (d.auth # None => ~d.base)

ASSUME PostmanFilesAssumption ==
    /\ MaxTime \in Nat \ {0} /\ MaxFaults \in Nat
    /\ \A i \in Imports :
          /\ Wanted[i].kind \in {"postman", "har"}
          /\ Wanted[i].overwrite \in BOOLEAN
          /\ Wanted[i].dir \in Seq(STRING)
          \* an archive has neither, and one file; that of a collection has a name of its own
          /\ Wanted[i].kind = "har" => ~Wanted[i].variables /\ ~Wanted[i].described
                                      /\ Len(Wanted[i].folders) = 1
                                      /\ Wanted[i].folders[1].place = <<>>
                                      /\ Wanted[i].folders[1].auth = None
          /\ Wanted[i].kind = "postman" => Wanted[i].name # ".dothttp.json"
          /\ LET folders == Wanted[i].folders
             IN /\ Len(folders) \in Nat \ {0} /\ DOMAIN folders = 1..Len(folders)
                /\ \A f \in DOMAIN folders :
                      folders[f].place \in Seq(STRING) /\ folders[f].above \in 0..f - 1
    \* no file has the name that another would have to take
    /\ \A p \in DOMAIN FirstDisk : p.second = 0
    /\ \A p \in DOMAIN FirstDisk : \A d \in FirstDisk[p] : Extending(d)

VARIABLES
    disk,    \* the files, by directory and name
    import,  \* import[i]: how far import i is
    clock,   \* the second it is
    faults   \* files that could not be written

vars == <<disk, import, clock, faults>>

-----------------------------------------------------------------------------
\* Files by path: what new has comes over what files has.
Put(files, new) ==
    [p \in DOMAIN files \cup DOMAIN new |-> IF p \in DOMAIN new THEN new[p] ELSE files[p]]
OneFile(path, content) == [p \in {path} |-> content]

Folders(i) == Wanted[i].folders

\* Wrong variant: a folder's own authentication or none.
OwnAuth(i, f) == Folders(i)[f].auth

\* The authentication of a folder that has none is that of the one above it
\* (item_auth or auth).
AuthOf(i, f) ==
    LET folders == Folders(i)
        auth[g \in 0..Len(folders)] ==
            IF g = 0 THEN None
            ELSE IF folders[g].auth # None THEN folders[g].auth ELSE auth[folders[g].above]
    IN auth[f]

\* import_requests_into_dire: the requests that can be imported, and before
\* them the definition they extend if there is an authentication.  Of an
\* archive, from_har keeps one that raises, with what it has by then.
Definitions(i, f) ==
    LET auth == AuthOf(i, f)
        requests == Folders(i)[f].requests
        imported == {r \in DOMAIN requests : requests[r] # "raises" \/ Wanted[i].kind = "har"}
        base == IF auth = None THEN {} ELSE {[name |-> <<i, f, 0>>, auth |-> auth, base |-> FALSE]}
    IN IF imported = {} THEN {}
       ELSE base \cup {[name |-> <<i, f, r>>, auth |-> None,
                        base |-> auth # None /\ requests[r] # "noauth"] : r \in imported}

\* A folder makes a file if a request of it can be imported; an archive does.
Makes(i, f) == Definitions(i, f) # {} \/ Wanted[i].kind = "har"

Path(dir, name) == [dir |-> dir, name |-> name, second |-> 0]
File(i, f) == Path(Wanted[i].dir \o Folders(i)[f].place, Wanted[i].name)
Environment(i, f) == Path(Wanted[i].dir \o Folders(i)[f].place, ".dothttp.json")
Readme(i) == Path(Wanted[i].dir, "README.txt")

\* get_alternate_filename: another name, told by the second it was made in.
Alternate(path) == [dir |-> path.dir, name |-> path.name, second |-> clock]

Unformattable(i, f) == "unformattable" \in Range(Folders(i)[f].requests)

-----------------------------------------------------------------------------
Init ==
    /\ disk = FirstDisk
    /\ import = [i \in Imports |->
          [at |-> "walk", folder |-> 1, files |-> <<>>, order |-> <<>>, target |-> None,
           saved |-> {}]]
    /\ clock = 1
    /\ faults = 0

Goes(i, fields) == import' = [import EXCEPT ![i] = fields]

\* The result is a dictionary: a folder at the place of an earlier one takes
\* over its file, and its turn.
Enter(order, key) == IF key \in Range(order) THEN order ELSE Append(order, key)

\* import_items comes to the next folder.
Walk(i) ==
    LET f == import[i].folder
        own == OneFile(File(i, f), Definitions(i, f))
        files == IF Wanted[i].variables THEN Put(own, OneFile(Environment(i, f), {})) ELSE own
        order == Enter(import[i].order, File(i, f))
    IN /\ import[i].at = "walk"
       /\ f <= Len(Folders(i))
       /\ Wanted[i].kind = "postman" => ~Unformattable(i, f)
       /\ Goes(i, IF ~Makes(i, f) THEN [import[i] EXCEPT !.folder = f + 1]
                  ELSE [import[i] EXCEPT
                           !.folder = f + 1,
                           !.files = Put(@, files),
                           !.order = IF Wanted[i].variables
                                     THEN Enter(order, Environment(i, f)) ELSE order])
       /\ UNCHANGED <<disk, clock, faults>>

\* Formatting raises: the import is answered with an error.
WalkRaises(i) ==
    /\ import[i].at = "walk"
    /\ import[i].folder <= Len(Folders(i))
    /\ Wanted[i].kind = "postman"
    /\ Unformattable(i, import[i].folder)
    /\ Goes(i, [import[i] EXCEPT !.at = "failed"])
    /\ UNCHANGED <<disk, clock, faults>>

\* A description becomes the README, over one that is there.
WriteReadme(i) ==
    /\ import[i].at = "walk"
    /\ import[i].folder > Len(Folders(i))
    /\ disk' = IF Wanted[i].described
               THEN Put(disk, OneFile(Readme(i), {[name |-> <<i, 0, 0>>, auth |-> None,
                                                   base |-> FALSE]}))
               ELSE disk
    /\ Goes(i, [import[i] EXCEPT !.at = "test"])
    /\ UNCHANGED <<clock, faults>>

NextFile(i) == Head(import[i].order)

\* Wrong variant: what is there is written over.
TestNothing(i) ==
    /\ import[i].at = "test" /\ import[i].order # <<>>
    /\ Goes(i, [import[i] EXCEPT !.at = "open", !.target = NextFile(i)])
    /\ UNCHANGED <<disk, clock, faults>>

\* A file that exists is left alone if it is not to be overwritten; an archive
\* has no such choice.
Test(i) ==
    /\ import[i].at = "test" /\ import[i].order # <<>>
    /\ Goes(i, [import[i] EXCEPT
          !.at = "open",
          !.target = IF NextFile(i) \in DOMAIN disk /\ ~Wanted[i].overwrite
                     THEN Alternate(NextFile(i)) ELSE NextFile(i)])
    /\ UNCHANGED <<disk, clock, faults>>

Open(i) ==
    /\ import[i].at = "open"
    /\ disk' = Put(disk, OneFile(import[i].target, {}))
    /\ Goes(i, [import[i] EXCEPT !.at = "write"])
    /\ UNCHANGED <<clock, faults>>

\* The directory cannot be made or the file not be opened: the files before
\* it stay.
OpenFails(i) ==
    /\ import[i].at = "open"
    /\ faults < MaxFaults
    /\ faults' = faults + 1
    /\ Goes(i, [import[i] EXCEPT !.at = "failed"])
    /\ UNCHANGED <<disk, clock>>

\* An archive is formatted when its file is open: one that cannot be leaves
\* an empty file.
Write(i) ==
    /\ import[i].at = "write"
    /\ IF Wanted[i].kind = "har" /\ Unformattable(i, 1)
       THEN /\ Goes(i, [import[i] EXCEPT !.at = "failed"])
            /\ UNCHANGED disk
       ELSE /\ disk' = [disk EXCEPT ![import[i].target] = import[i].files[NextFile(i)]]
            /\ Goes(i, [import[i] EXCEPT
                  !.at = "test", !.order = Tail(@), !.target = None,
                  !.saved = @ \cup {<<NextFile(i), import[i].target>>}])
    /\ UNCHANGED <<clock, faults>>

Answer(i) ==
    /\ import[i].at = "test" /\ import[i].order = <<>>
    /\ Goes(i, [import[i] EXCEPT !.at = "done"])
    /\ UNCHANGED <<disk, clock, faults>>

Tick ==
    /\ clock < MaxTime
    /\ clock' = clock + 1
    /\ UNCHANGED <<disk, import, faults>>

Step(i) ==
    \/ Walk(i) \/ WalkRaises(i) \/ WriteReadme(i) \/ Test(i) \/ Open(i)
    \/ OpenFails(i) \/ Write(i) \/ Answer(i)

Next == (\E i \in Imports : Step(i)) \/ Tick

Spec == Init /\ [][Next]_vars

-----------------------------------------------------------------------------
\* An alternate name keeps the extension.
IsHttp(path) == path.name \in HttpNames

\* contains_http_files: glob finds no hidden files, goes into no hidden
\* directories, and takes brackets in the directory's own path for a pattern.
ContainsHttpFiles(d) ==
    /\ \A n \in DOMAIN d : d[n] \notin Bracketed
    /\ \E p \in DOMAIN disk :
          /\ IsHttp(p) /\ p.name \notin Hidden /\ IsPrefix(d, p.dir)
          /\ \A n \in Len(d) + 1..Len(p.dir) : p.dir[n] \notin Hidden

Parses(contents) == \A d \in contents : d.name \notin Unparsable

\* Wrong variant: a directory counts for the files right in it.
ExportedFlat(top) ==
    {p \in DOMAIN disk : /\ IsHttp(p) /\ Parses(disk[p]) /\ IsPrefix(top, p.dir)
                         /\ \A n \in Len(top)..Len(p.dir) :
                               \E q \in DOMAIN disk : q.dir = SubSeq(p.dir, 1, n) /\ IsHttp(q)}

\* http2postman's walk: the items of what a directory holds hang on those of
\* the directories above it, and each of these has to contain something.  A
\* file that cannot be parsed is left out.
Exported(top) ==
    {p \in DOMAIN disk : /\ IsHttp(p) /\ Parses(disk[p]) /\ IsPrefix(top, p.dir)
                         /\ \A n \in Len(top)..Len(p.dir) : ContainsHttpFiles(SubSeq(p.dir, 1, n))}

-----------------------------------------------------------------------------
TypeOK ==
    /\ \A p \in DOMAIN disk : \A d \in disk[p] : Extending(d)
    /\ DOMAIN import = Imports
    /\ \A i \in Imports :
          /\ DOMAIN import[i] = {"at", "folder", "files", "order", "target", "saved"}
          /\ import[i].at \in {"walk", "test", "open", "write", "done", "failed"}
          /\ import[i].folder \in Nat
          /\ \A k \in DOMAIN import[i].files : \A d \in import[i].files[k] : Extending(d)
          /\ import[i].order \in Seq(DOMAIN import[i].files)
          /\ import[i].at \in {"open", "write"} => import[i].order # <<>>
          /\ import[i].at = "write" => import[i].target \in DOMAIN disk
    /\ clock \in 1..MaxTime
    /\ faults \in 0..MaxFaults

\* A file that was there stays what it was, whichever imports run and however
\* they fail, unless one of them is to overwrite; only a README goes
\* (postman2http.py:456-470, har2httphandler.py:150-160).
UserFilesStay ==
    (\A i \in Imports : ~Wanted[i].overwrite) =>
        \A p \in DOMAIN FirstDisk : p.name # "README.txt" => disk[p] = FirstDisk[p]

\* f and the folders above it.
Way(i, f) ==
    LET way[g \in 0..Len(Folders(i))] ==
            IF g = 0 THEN {} ELSE {g} \cup way[Folders(i)[g].above]
    IN way[f]

Claimed(i) ==
    {s[2] : s \in import[i].saved} \cup {import[i].target}
        \cup (IF Wanted[i].described THEN {Readme(i)} ELSE {})

\* When an import is answered, every request it could import is on the disk,
\* in the directory of its folder, and extends an authentication if its folder
\* or one above has any, unless it wants none: but for folders whose names are
\* cleaned to the same place, of which the last remains, for files that two
\* imports have taken for free at once, and for an archive that was saved as
\* a README.txt which another description goes over
\* (postman2http.py:60-119, 456-504; har2httphandler.py:148-160).
EveryRequestSaved ==
    \A i \in Imports : import[i].at = "done" =>
        \A f \in DOMAIN Folders(i) :
            (\A g \in f + 1..Len(Folders(i)) :
                Folders(i)[g].place = Folders(i)[f].place => ~Makes(i, g)) =>
            \A r \in DOMAIN Folders(i)[f].requests :
                LET request == Folders(i)[f].requests[r]
                    inherits == \E g \in Way(i, f) : Folders(i)[g].auth # None
                    file == {s \in import[i].saved : s[1] = File(i, f)}
                IN request # "raises" \/ Wanted[i].kind = "har" =>
                   \E s \in file :
                      /\ s[2].dir = Wanted[i].dir \o Folders(i)[f].place
                      /\ \/ [name |-> <<i, f, r>>, auth |-> None,
                             base |-> inherits /\ request # "noauth"] \in disk[s[2]]
                         \/ \E j \in Imports \ {i} : s[2] \in Claimed(j)

\* What an import has saved is there when the directory is exported, with the
\* other names it had to take, if its name ends in .http or .dhttp, no name on
\* the way to it is hidden or has brackets, what it was given can be parsed,
\* and no other import has taken the file for free too.  A notebook, or an
\* archive saved under another name, is never exported
\* (http2postman.py:104-109, 156-188; postman2http.py:100).
ExportFindsImports ==
    \A i \in Imports : \A s \in import[i].saved :
        /\ IsHttp(s[2]) /\ s[2].name \notin Hidden
        /\ \A n \in DOMAIN s[2].dir : s[2].dir[n] \notin Hidden \cup Bracketed
        /\ Parses(import[i].files[s[1]])
        /\ \A j \in Imports \ {i} : s[2] \notin Claimed(j)
        => s[2] \in Exported(Wanted[i].dir)
=============================================================================
