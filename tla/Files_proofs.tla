---------------------------- MODULE Files_proofs ----------------------------
(***************************************************************************)
(* Proofs about the two parts of the server that write the user's files:   *)
(* PostmanFiles, for any number of imports of any collections and          *)
(* archives, any files on the disk and any faults; and FsHandlers, for any *)
(* number of threads, any commands on any tree of files and any number of  *)
(* refused calls and kills of the process.                                 *)
(***************************************************************************)
EXTENDS PostmanFiles, FsHandlers, WellFoundedInduction, TLAPS

\* What the bounds and the disk are at first.
LEMMA Given ==
    /\ MaxTime \in Nat \ {0} /\ MaxFaults \in Nat
    /\ \A p \in DOMAIN FirstDisk : p.second = 0
    /\ \A p \in DOMAIN FirstDisk : \A d \in FirstDisk[p] : Extending(d)
BY PostmanFilesAssumption DEF PostmanFilesAssumption

\* What is imported.
LEMMA FoldersGiven ==
    ASSUME NEW i \in Imports
    PROVE  /\ Wanted[i].kind \in {"postman", "har"}
           /\ Wanted[i].dir \in Seq(STRING)
           /\ Wanted[i].kind = "har" => ~Wanted[i].variables /\ ~Wanted[i].described
           /\ Wanted[i].kind = "postman" => Wanted[i].name # ".dothttp.json"
           /\ Len(Folders(i)) \in Nat \ {0} /\ DOMAIN Folders(i) = 1..Len(Folders(i))
           /\ \A f \in DOMAIN Folders(i) :
                 Folders(i)[f].place \in Seq(STRING) /\ Folders(i)[f].above \in 0..f - 1
BY PostmanFilesAssumption DEF PostmanFilesAssumption, Folders

USE Given

Fields == {"at", "folder", "files", "order", "target", "saved"}

\* The files that no import may touch, if none is to overwrite.
Protected == {p \in DOMAIN FirstDisk : p.name # "README.txt"}

NoneOverwrites == \A i \in Imports : ~Wanted[i].overwrite

\* They are all there, as they were, and nothing is about to be written to
\* one of them.
FilesInv ==
    NoneOverwrites =>
        /\ \A p \in Protected : p \in DOMAIN disk /\ disk[p] = FirstDisk[p]
        /\ \A i \in Imports :
              import[i].at \in {"open", "write"} => import[i].target \notin Protected

\* The files an import may make for its folders.
Keys(i) == {File(i, f) : f \in DOMAIN Folders(i)} \cup {Environment(i, f) : f \in DOMAIN Folders(i)}

\* A later folder with requests has the place of f.
TakenOver(i, f, last) ==
    \E g \in f + 1..last : Folders(i)[g].place = Folders(i)[f].place /\ Makes(i, g)

\* Every folder the walk has been to has its definitions in the files, and its
\* file waits for its turn or was saved.
WalkOf(i) ==
    /\ import[i].folder \in 1..Len(Folders(i)) + 1
    /\ import[i].at \in {"test", "open", "write", "done"} =>
          import[i].folder = Len(Folders(i)) + 1
    /\ import[i].at = "walk" => import[i].saved = {}
    /\ import[i].at = "done" => import[i].order = <<>>
    /\ DOMAIN import[i].files \subseteq Keys(i)
    /\ \A f \in 1..import[i].folder - 1 :
          Makes(i, f) /\ ~TakenOver(i, f, import[i].folder - 1) =>
             /\ File(i, f) \in DOMAIN import[i].files
             /\ import[i].files[File(i, f)] = Definitions(i, f)
             /\ \/ \E n \in DOMAIN import[i].order : import[i].order[n] = File(i, f)
                \/ \E s \in import[i].saved : s[1] = File(i, f)

\* target is the file k or one that carries the time.
NamedFor(k, target) ==
    \E second \in Nat : target = [dir |-> k.dir, name |-> k.name, second |-> second]

\* The files that import j has written, or is to write.
Written(j) ==
    {s[2] : s \in import[j].saved}
        \cup (IF import[j].at \in {"open", "write", "failed"} THEN {import[j].target} ELSE {})
        \cup (IF Wanted[j].described THEN {Readme(j)} ELSE {})

NoneTwice(order) == \A m, n \in DOMAIN order : order[m] = order[n] => m = n

\* A file has one turn, under a name made from its own, and what was saved
\* stays unless another import writes to the same name.
SavedOf(i) ==
    /\ NoneTwice(import[i].order)
    /\ import[i].at \in {"open", "write"} => NamedFor(NextFile(i), import[i].target)
    /\ \A s \in import[i].saved :
          /\ s[1] \in DOMAIN import[i].files
          /\ \A n \in DOMAIN import[i].order : import[i].order[n] # s[1]
          /\ NamedFor(s[1], s[2])
          /\ s[2] \in DOMAIN disk
          /\ \/ disk[s[2]] = import[i].files[s[1]]
             \/ \E j \in Imports \ {i} : s[2] \in Written(j)

WalkInv == \A i \in Imports : WalkOf(i)
SavedInv == \A i \in Imports : SavedOf(i)

IInv == TypeOK /\ FilesInv /\ WalkInv /\ SavedInv

-----------------------------------------------------------------------------
\* What is imported extends an authentication or has one.
LEMMA DefinitionsExtend ==
    ASSUME NEW i \in Imports, NEW f
    PROVE  \A d \in Definitions(i, f) : Extending(d)
<1> DEFINE auth == AuthOf(i, f)
<1> DEFINE requests == Folders(i)[f].requests
<1> DEFINE imported == {r \in DOMAIN requests : requests[r] # "raises" \/ Wanted[i].kind = "har"}
<1> DEFINE base == IF auth = None THEN {}
                   ELSE {[name |-> <<i, f, 0>>, auth |-> auth, base |-> FALSE]}
<1> SUFFICES ASSUME NEW d \in Definitions(i, f)
             PROVE  Extending(d)
  OBVIOUS
<1>1. CASE d \in base
  <2>1. d = [name |-> <<i, f, 0>>, auth |-> auth, base |-> FALSE]
    BY <1>1
  <2>2. d.base = FALSE
    BY <2>1
  <2> QED
    BY <2>2 DEF Extending
<1>2. CASE d \notin base
  <2>1. PICK r \in imported :
            d = [name |-> <<i, f, r>>, auth |-> None,
                 base |-> auth # None /\ requests[r] # "noauth"]
    BY <1>2 DEF Definitions
  <2>2. d.auth = None /\ d.base = (auth # None /\ requests[r] # "noauth")
    BY <2>1
  <2>3. (auth # None /\ requests[r] # "noauth") \in BOOLEAN
    OBVIOUS
  <2> QED
    BY <2>2, <2>3 DEF Extending
<1> QED
  BY <1>1, <1>2

LEMMA TypeInit == Init => TypeOK
<1> SUFFICES ASSUME Init
             PROVE  TypeOK
  OBVIOUS
<1> DEFINE start == [at |-> "walk", folder |-> 1, files |-> <<>>, order |-> <<>>,
                     target |-> None, saved |-> {}]
<1>1. /\ DOMAIN import = Imports
      /\ \A i \in Imports : import[i] = start
  BY DEF Init
<1>2. /\ DOMAIN start = {"at", "folder", "files", "order", "target", "saved"}
      /\ start.at = "walk" /\ start.folder = 1
      /\ DOMAIN start.files = {} /\ start.order = <<>>
  OBVIOUS
<1>3. <<>> \in Seq({})
  OBVIOUS
<1> HIDE DEF start
<1>4. \A p \in DOMAIN disk : \A d \in disk[p] : Extending(d)
  BY DEF Init
<1>5. clock \in 1..MaxTime /\ faults \in 0..MaxFaults
  BY DEF Init
<1>6. ASSUME NEW i \in Imports
      PROVE  /\ import[i].order \in Seq(DOMAIN import[i].files)
             /\ \A k \in DOMAIN import[i].files : \A d \in import[i].files[k] : Extending(d)
  <2>1. import[i].order = <<>> /\ DOMAIN import[i].files = {}
    BY <1>1, <1>2
  <2> QED
    BY <2>1, <1>3
<1>7. /\ DOMAIN start = Fields /\ start.at = "walk" /\ start.folder \in Nat
  BY <1>2 DEF Fields
<1> QED
  BY <1>1, <1>4, <1>5, <1>6, <1>7 DEF TypeOK, Fields

\* The files an import goes on with after a folder, and their order.
LEMMA EnterKeeps ==
    ASSUME NEW S, NEW T, NEW order \in Seq(S), NEW key \in T, S \subseteq T
    PROVE  Enter(order, key) \in Seq(T)
BY DEF Enter

LEMMA WalkType ==
    ASSUME TypeOK, NEW i \in Imports, Walk(i)
    PROVE  TypeOK'
<1> DEFINE f == import[i].folder
<1> DEFINE file == File(i, f)
<1> DEFINE env == Environment(i, f)
<1> DEFINE own == OneFile(file, Definitions(i, f))
<1> DEFINE files == IF Wanted[i].variables THEN Put(own, OneFile(env, {})) ELSE own
<1> DEFINE old == import[i].files
<1> DEFINE put == Put(old, files)
<1> DEFINE order == Enter(import[i].order, file)
<1> DEFINE longer == IF Wanted[i].variables THEN Enter(order, env) ELSE order
<1>t. /\ DOMAIN import = Imports /\ DOMAIN import[i] = Fields /\ f \in Nat
      /\ \A k \in DOMAIN old : \A d \in old[k] : Extending(d)
      /\ import[i].order \in Seq(DOMAIN old)
  BY DEF TypeOK, Fields
<1>0. \A d \in Definitions(i, f) : Extending(d)
  BY DefinitionsExtend
<1> HIDE DEF file, env
<1>1. DOMAIN files = {file} \cup (IF Wanted[i].variables THEN {env} ELSE {})
  BY DEF Put, OneFile
<1>2. \A k \in DOMAIN files : \A d \in files[k] : Extending(d)
  BY <1>0 DEF Put, OneFile
<1> HIDE DEF files
<1>3. /\ DOMAIN put = DOMAIN files \cup DOMAIN old
      /\ \A k \in DOMAIN put : put[k] = IF k \in DOMAIN files THEN files[k] ELSE old[k]
  BY DEF Put
<1>4. \A k \in DOMAIN put : \A d \in put[k] : Extending(d)
  BY <1>2, <1>3, <1>t
<1>5. longer \in Seq(DOMAIN put)
  <2>1. file \in DOMAIN put /\ DOMAIN old \subseteq DOMAIN put
    BY <1>1, <1>3
  <2>2. order \in Seq(DOMAIN put)
    BY <2>1, <1>t, EnterKeeps
  <2>3. Wanted[i].variables => Enter(order, env) \in Seq(DOMAIN put)
    <3> SUFFICES ASSUME Wanted[i].variables
                 PROVE  Enter(order, env) \in Seq(DOMAIN put)
      OBVIOUS
    <3>1. env \in DOMAIN put
      BY <1>1, <1>3
    <3> HIDE DEF order, put
    <3> QED
      BY <2>2, <3>1, EnterKeeps
  <2> QED
    BY <2>2, <2>3
<1>6. /\ import[i].at = "walk"
      /\ \/ import' = [import EXCEPT ![i] = [import[i] EXCEPT !.folder = f + 1]]
         \/ import' = [import EXCEPT ![i] = [import[i] EXCEPT
                          !.folder = f + 1, !.files = put, !.order = longer]]
      /\ UNCHANGED <<disk, clock, faults>>
  BY DEF Walk, Goes, files, file, env
<1> HIDE DEF put, longer
<1>7. /\ DOMAIN import' = Imports
      /\ \A j \in Imports \ {i} : import'[j] = import[j]
      /\ DOMAIN import'[i] = Fields /\ import'[i].at = "walk" /\ import'[i].folder = f + 1
      /\ \/ import'[i].files = old /\ import'[i].order = import[i].order
         \/ import'[i].files = put /\ import'[i].order = longer
  BY <1>6, <1>t DEF Fields
<1>8. /\ \A k \in DOMAIN import'[i].files : \A d \in import'[i].files[k] : Extending(d)
      /\ import'[i].order \in Seq(DOMAIN import'[i].files)
  BY <1>4, <1>5, <1>7, <1>t
<1> QED
  BY <1>6, <1>7, <1>8, <1>t DEF TypeOK, Fields

\* A step that changes only where one import is, and what is on the disk.
LEMMA StepType ==
    ASSUME TypeOK, NEW i \in Imports, DOMAIN import' = Imports,
           \A j \in Imports \ {i} : import'[j] = import[j],
           DOMAIN import'[i] = Fields,
           import'[i].at \in {"walk", "test", "open", "write", "done", "failed"},
           import'[i].folder = import[i].folder,
           import'[i].files = import[i].files,
           import'[i].order \in Seq(DOMAIN import[i].files),
           import'[i].at \in {"open", "write"} => import'[i].order # <<>>,
           import'[i].at = "write" => import'[i].target \in DOMAIN disk',
           DOMAIN disk \subseteq DOMAIN disk',
           \A p \in DOMAIN disk' : \A d \in disk'[p] : Extending(d),
           clock' = clock, faults' \in 0..MaxFaults
    PROVE  TypeOK'
BY DEF TypeOK, Fields

LEMMA HeadTail ==
    ASSUME NEW S, NEW s \in Seq(S), s # <<>>
    PROVE  Head(s) \in S /\ Tail(s) \in Seq(S)
OBVIOUS

LEMMA TypeStep == TypeOK /\ [Next]_vars => TypeOK'
<1> SUFFICES ASSUME TypeOK, [Next]_vars
             PROVE  TypeOK'
  OBVIOUS
<1>1. ASSUME NEW i \in Imports, Step(i)
      PROVE  TypeOK'
  <2>t. /\ DOMAIN import = Imports /\ DOMAIN import[i] = Fields
        /\ import[i].order \in Seq(DOMAIN import[i].files)
        /\ \A p \in DOMAIN disk : \A d \in disk[p] : Extending(d)
        /\ faults \in 0..MaxFaults
    BY DEF TypeOK, Fields
  <2>1. CASE Walk(i)
    BY <2>1, WalkType
  <2>2. CASE WalkRaises(i)
    BY <2>2, <2>t, StepType DEF WalkRaises, Goes, Fields
  <2>3. CASE WriteReadme(i)
    <3>1. /\ DOMAIN disk \subseteq DOMAIN disk'
          /\ \A p \in DOMAIN disk' : \A d \in disk'[p] : Extending(d)
      <4> DEFINE text == {[name |-> <<i, 0, 0>>, auth |-> None, base |-> FALSE]}
      <4>1. \A d \in text : Extending(d)
        <5> SUFFICES ASSUME NEW d \in text
                     PROVE  Extending(d)
          OBVIOUS
        <5>1. d = [name |-> <<i, 0, 0>>, auth |-> None, base |-> FALSE]
          OBVIOUS
        <5>2. d.base = FALSE
          BY <5>1
        <5> QED
          BY <5>2 DEF Extending
      <4>2. disk' = disk \/ disk' = Put(disk, OneFile(Readme(i), text))
        BY <2>3 DEF WriteReadme
      <4> HIDE DEF text
      <4> QED
        BY <4>1, <4>2, <2>t DEF Put, OneFile
    <3>2. /\ import' = [import EXCEPT ![i] = [import[i] EXCEPT !.at = "test"]]
          /\ UNCHANGED <<clock, faults>>
      BY <2>3 DEF WriteReadme, Goes
    <3> QED
      BY <3>1, <3>2, <2>t, StepType DEF Fields
  <2>4. CASE Test(i)
    <3>1. import' = [import EXCEPT ![i] = [import[i] EXCEPT !.at = "open", !.target = import'[i].target]]
      BY <2>4, <2>t DEF Test, Goes, Fields
    <3>2. import[i].order # <<>> /\ UNCHANGED <<disk, clock, faults>>
      BY <2>4 DEF Test
    <3>3. /\ DOMAIN import' = Imports
          /\ \A j \in Imports \ {i} : import'[j] = import[j]
      BY <3>1, <2>t
    <3>4. /\ DOMAIN import'[i] = Fields /\ import'[i].at = "open"
          /\ import'[i].folder = import[i].folder /\ import'[i].files = import[i].files
          /\ import'[i].order = import[i].order
      BY <2>4, <2>t DEF Test, Goes, Fields
    <3> QED
      BY <3>2, <3>3, <3>4, <2>t, StepType
  <2>5. CASE Open(i)
    <3>1. /\ DOMAIN disk' = {import[i].target} \cup DOMAIN disk
          /\ \A p \in DOMAIN disk' : \A d \in disk'[p] : Extending(d)
      <4>1. disk' = Put(disk, OneFile(import[i].target, {}))
        BY <2>5 DEF Open
      <4> QED
        BY <4>1, <2>t DEF Put, OneFile
    <3>2. /\ import' = [import EXCEPT ![i] = [import[i] EXCEPT !.at = "write"]]
          /\ UNCHANGED <<clock, faults>> /\ import[i].order # <<>>
      BY <2>5 DEF Open, Goes, TypeOK
    <3> QED
      BY <3>1, <3>2, <2>t, StepType DEF Fields
  <2>6. CASE OpenFails(i)
    <3>1. faults' \in 0..MaxFaults
      BY <2>6, <2>t DEF OpenFails
    <3>2. /\ import' = [import EXCEPT ![i] = [import[i] EXCEPT !.at = "failed"]]
          /\ UNCHANGED <<disk, clock>>
      BY <2>6 DEF OpenFails, Goes
    <3> QED
      BY <3>1, <3>2, <2>t, StepType DEF Fields
  <2>7. CASE Write(i)
    <3>0. /\ import[i].at = "write" /\ import[i].order # <<>> /\ UNCHANGED <<clock, faults>>
      BY <2>7 DEF Write, TypeOK
    <3>1. CASE import' = [import EXCEPT ![i] = [import[i] EXCEPT !.at = "failed"]] /\ UNCHANGED disk
      BY <3>0, <3>1, <2>t, StepType DEF Fields
    <3>2. CASE /\ disk' = [disk EXCEPT ![import[i].target] = import[i].files[NextFile(i)]]
               /\ Goes(i, [import[i] EXCEPT
                      !.at = "test", !.order = Tail(@), !.target = None,
                      !.saved = @ \cup {<<NextFile(i), import[i].target>>}])
      <4>1. NextFile(i) \in DOMAIN import[i].files
            /\ Tail(import[i].order) \in Seq(DOMAIN import[i].files)
        BY <3>0, <2>t, HeadTail DEF NextFile
      <4>2. \A d \in import[i].files[NextFile(i)] : Extending(d)
        BY <4>1 DEF TypeOK
      <4>3. DOMAIN disk' = DOMAIN disk
            /\ \A p \in DOMAIN disk' : \A d \in disk'[p] : Extending(d)
        BY <3>2, <4>2, <2>t
      <4>4. /\ DOMAIN import' = Imports
            /\ \A j \in Imports \ {i} : import'[j] = import[j]
            /\ DOMAIN import'[i] = Fields /\ import'[i].at = "test"
            /\ import'[i].folder = import[i].folder /\ import'[i].files = import[i].files
            /\ import'[i].order = Tail(import[i].order)
        BY <3>2, <2>t DEF Goes, Fields
      <4> QED
        BY <4>1, <4>3, <4>4, <3>0, <2>t, StepType
    <3> QED
      BY <2>7, <3>1, <3>2 DEF Write, Goes
  <2>8. CASE Answer(i)
    BY <2>8, <2>t, StepType DEF Answer, Goes, Fields
  <2> QED
    BY <1>1, <2>1, <2>2, <2>3, <2>4, <2>5, <2>6, <2>7, <2>8 DEF Step
<1>2. CASE Tick
  BY <1>2 DEF Tick, TypeOK
<1>3. CASE UNCHANGED vars
  BY <1>3 DEF vars, TypeOK
<1> QED
  BY <1>1, <1>2, <1>3 DEF Next

-----------------------------------------------------------------------------
LEMMA FilesInit == Init => FilesInv
BY DEF Init, FilesInv, Protected

\* Nothing is written but the target of an import that is open, and READMEs.
LEMMA FilesStep == IInv /\ [Next]_vars => FilesInv'
<1> SUFFICES ASSUME IInv, [Next]_vars, NoneOverwrites
             PROVE  /\ \A p \in Protected : p \in DOMAIN disk' /\ disk'[p] = FirstDisk[p]
                    /\ \A i \in Imports : import'[i].at \in {"open", "write"} =>
                                              import'[i].target \notin Protected
  BY DEF FilesInv, NoneOverwrites, Protected
<1>t. /\ DOMAIN import = Imports
      /\ \A p \in Protected : p \in DOMAIN disk /\ disk[p] = FirstDisk[p]
      /\ \A i \in Imports :
            /\ DOMAIN import[i] = Fields
            /\ import[i].at \in {"open", "write"} => import[i].target \notin Protected
  BY DEF IInv, TypeOK, FilesInv, Fields
<1>1. ASSUME NEW i \in Imports, Step(i)
      PROVE  /\ \A p \in Protected : p \in DOMAIN disk' /\ disk'[p] = FirstDisk[p]
             /\ \A j \in Imports : import'[j].at \in {"open", "write"} =>
                                       import'[j].target \notin Protected
  <2>0. /\ DOMAIN import[i] = Fields
        /\ import[i].at \in {"open", "write"} => import[i].target \notin Protected
    BY <1>t
  <2>1. CASE Walk(i)
    <3>1. UNCHANGED disk /\ import[i].at = "walk"
      BY <2>1 DEF Walk
    <3>2. \A j \in Imports \ {i} : import'[j] = import[j]
      BY <2>1, <1>t DEF Walk, Goes
    <3>3. import'[i].at = "walk"
      BY <2>1, <2>0, <1>t DEF Walk, Goes, Fields
    <3> QED
      BY <3>1, <3>2, <3>3, <1>t
  <2>2. CASE WalkRaises(i) \/ Answer(i) \/ OpenFails(i)
    BY <2>2, <2>0, <1>t DEF WalkRaises, Answer, OpenFails, Goes, Fields
  <2>3. CASE WriteReadme(i)
    <3>1. Readme(i) \notin Protected
      BY DEF Protected, Readme, Path
    <3>2. \A p \in Protected : p \in DOMAIN disk' /\ disk'[p] = FirstDisk[p]
      <4>1. \/ disk' = disk
            \/ disk' = Put(disk, OneFile(Readme(i), {[name |-> <<i, 0, 0>>, auth |-> None,
                                                       base |-> FALSE]}))
        BY <2>3 DEF WriteReadme
      <4>2. ASSUME NEW v, disk' = Put(disk, OneFile(Readme(i), v))
            PROVE  \A p \in Protected : p \in DOMAIN disk' /\ disk'[p] = FirstDisk[p]
        BY <4>2, <3>1, <1>t DEF Put, OneFile
      <4> QED
        BY <4>1, <4>2, <1>t
    <3> QED
      BY <3>2, <2>3, <2>0, <1>t DEF WriteReadme, Goes, Fields
  <2>4. CASE Test(i)
    <3>1. clock # 0
      BY DEF IInv, TypeOK
    <3>2. Alternate(NextFile(i)) \notin Protected
      <4>1. \A p \in Protected : p.second = 0
        BY DEF Protected
      <4> QED
        BY <3>1, <4>1 DEF Alternate
    <3>3. NextFile(i) \notin DOMAIN disk => NextFile(i) \notin Protected
      BY <1>t
    <3>4. import'[i].target \notin Protected
      BY <2>4, <2>0, <3>2, <3>3, <1>t DEF Test, Goes, Fields, NoneOverwrites
    <3> QED
      BY <3>4, <2>4, <2>0, <1>t DEF Test, Goes, Fields
  <2>5. CASE Open(i)
    <3>1. import[i].target \notin Protected
      BY <2>5, <2>0 DEF Open
    <3>2. \A p \in Protected : p \in DOMAIN disk' /\ disk'[p] = FirstDisk[p]
      <4>1. disk' = Put(disk, OneFile(import[i].target, {}))
        BY <2>5 DEF Open
      <4>2. DOMAIN disk' = {import[i].target} \cup DOMAIN disk
            /\ \A p \in DOMAIN disk : p # import[i].target => disk'[p] = disk[p]
        BY <4>1 DEF Put, OneFile
      <4> QED
        BY <4>2, <3>1, <1>t
    <3> QED
      BY <3>1, <3>2, <2>5, <2>0, <1>t DEF Open, Goes, Fields
  <2>6. CASE Write(i)
    <3>1. import[i].target \notin Protected
      BY <2>6, <2>0 DEF Write
    <3>2. \A p \in Protected : p \in DOMAIN disk' /\ disk'[p] = FirstDisk[p]
      BY <2>6, <3>1, <1>t DEF Write
    <3>3. \A j \in Imports \ {i} : import'[j] = import[j]
      BY <2>6, <1>t DEF Write, Goes
    <3>4. import'[i].at \in {"failed", "test"}
      <4>1. CASE import' = [import EXCEPT ![i] = [import[i] EXCEPT !.at = "failed"]]
        BY <4>1, <2>0, <1>t DEF Fields
      <4>2. ASSUME NEW order, NEW saved,
                   import' = [import EXCEPT ![i] = [import[i] EXCEPT
                       !.at = "test", !.order = order, !.target = None, !.saved = saved]]
            PROVE  import'[i].at = "test"
        BY <4>2, <2>0, <1>t DEF Fields
      <4> QED
        BY <2>6, <4>1, <4>2 DEF Write, Goes
    <3> QED
      BY <3>2, <3>3, <3>4, <1>t
  <2> QED
    BY <1>1, <2>1, <2>2, <2>3, <2>4, <2>5, <2>6 DEF Step
<1>2. CASE Tick \/ UNCHANGED vars
  BY <1>2, <1>t DEF Tick, vars
<1> QED
  BY <1>1, <1>2 DEF Next

-----------------------------------------------------------------------------
\* A step that changes only where an import is.
Moved(i, x) ==
    /\ DOMAIN import' = Imports /\ \A j \in Imports \ {i} : import'[j] = import[j]
    /\ import'[i].at = x
    /\ import'[i].folder = import[i].folder /\ import'[i].files = import[i].files
    /\ import'[i].order = import[i].order /\ import'[i].saved = import[i].saved
    /\ import'[i].target = import[i].target

LEMMA AtOnly ==
    ASSUME TypeOK, NEW i \in Imports, NEW x,
           import' = [import EXCEPT ![i] = [import[i] EXCEPT !.at = x]]
    PROVE  Moved(i, x)
BY DEF TypeOK, Moved

\* Where an import that was in the walk, or that goes on with a file, is after
\* a step.
GoesOn(i) ==
    /\ \/ import[i].at = "walk" /\ import'[i].at \in {"test", "failed"}
       \/ import[i].at = "open" /\ import'[i].at \in {"write", "failed"}
       \/ import[i].at = "write" /\ import'[i].at = "failed"
       \/ import[i].at = "test" /\ import'[i].at = "done"
    /\ import[i].at = "walk" /\ import'[i].at = "test" => import[i].folder > Len(Folders(i))
    /\ import'[i].at = "done" => import[i].order = <<>>
    /\ import'[i].folder = import[i].folder /\ import'[i].files = import[i].files
    /\ import'[i].order = import[i].order /\ import'[i].saved = import[i].saved
    /\ import'[i].target = import[i].target

TakesTarget(i) ==
    /\ import[i].at = "test" /\ import'[i].at = "open"
    /\ NamedFor(NextFile(i), import'[i].target)
    /\ import'[i].folder = import[i].folder /\ import'[i].files = import[i].files
    /\ import'[i].order = import[i].order /\ import'[i].saved = import[i].saved

Saves(i) ==
    /\ import[i].at = "write" /\ import'[i].at = "test"
    /\ import[i].order # <<>>
    /\ disk' = [disk EXCEPT ![import[i].target] = import[i].files[NextFile(i)]]
    /\ import'[i].folder = import[i].folder /\ import'[i].files = import[i].files
    /\ import'[i].order = Tail(import[i].order)
    /\ import'[i].saved = import[i].saved \cup {<<NextFile(i), import[i].target>>}

\* A file is named for itself.
LEMMA KeysArePaths ==
    ASSUME NEW i \in Imports, NEW k \in Keys(i)
    PROVE  k = [dir |-> k.dir, name |-> k.name, second |-> 0]
<1>1. \A dir, name : Path(dir, name).dir = dir /\ Path(dir, name).name = name
  BY DEF Path
<1>2. \E dir, name : k = Path(dir, name)
  BY DEF Keys, File, Environment
<1> QED
  BY <1>1, <1>2 DEF Path

LEMMA StepCases ==
    ASSUME TypeOK, WalkInv, NEW i \in Imports, Step(i)
    PROVE  /\ DOMAIN import' = Imports /\ \A j \in Imports \ {i} : import'[j] = import[j]
           /\ Walk(i) \/ GoesOn(i) \/ TakesTarget(i) \/ Saves(i)
<1>t. DOMAIN import = Imports /\ DOMAIN import[i] = Fields /\ import[i].folder \in Nat
      /\ import[i].order \in Seq(DOMAIN import[i].files) /\ clock \in Nat
  BY DEF TypeOK, Fields
<1>1. CASE Walk(i)
  BY <1>1, <1>t DEF Walk, Goes
<1>2. CASE WalkRaises(i)
  <2>1. /\ import[i].at = "walk"
        /\ import' = [import EXCEPT ![i] = [import[i] EXCEPT !.at = "failed"]]
    BY <1>2 DEF WalkRaises, Goes
  <2>2. Moved(i, "failed")
    BY <2>1, AtOnly
  <2> QED
    BY <2>1, <2>2 DEF GoesOn, Moved
<1>3. CASE WriteReadme(i)
  <2>1. /\ import[i].at = "walk" /\ import[i].folder > Len(Folders(i))
        /\ import' = [import EXCEPT ![i] = [import[i] EXCEPT !.at = "test"]]
    BY <1>3 DEF WriteReadme, Goes
  <2>2. Moved(i, "test")
    BY <2>1, AtOnly
  <2> QED
    BY <2>1, <2>2 DEF GoesOn, Moved
<1>4. CASE Test(i)
  <2>1. /\ DOMAIN import' = Imports /\ \A j \in Imports \ {i} : import'[j] = import[j]
        /\ import[i].at = "test" /\ import'[i].at = "open" /\ import[i].order # <<>>
        /\ import'[i].target \in {NextFile(i), Alternate(NextFile(i))}
        /\ import'[i].folder = import[i].folder /\ import'[i].files = import[i].files
        /\ import'[i].order = import[i].order /\ import'[i].saved = import[i].saved
    BY <1>4, <1>t DEF Test, Goes, Fields
  <2>2. NextFile(i) \in DOMAIN import[i].files
    BY <2>1, <1>t, HeadTail DEF NextFile
  <2>3. NextFile(i) \in Keys(i)
    BY <2>2 DEF WalkInv, WalkOf
  <2>4. NextFile(i) = [dir |-> NextFile(i).dir, name |-> NextFile(i).name, second |-> 0]
    BY <2>3, KeysArePaths
  <2>5. NamedFor(NextFile(i), import'[i].target)
    BY <2>1, <2>4, <1>t DEF NamedFor, Alternate
  <2> QED
    BY <2>1, <2>5 DEF TakesTarget
<1>5. CASE Open(i)
  <2>1. /\ import[i].at = "open"
        /\ import' = [import EXCEPT ![i] = [import[i] EXCEPT !.at = "write"]]
    BY <1>5 DEF Open, Goes
  <2>2. Moved(i, "write")
    BY <2>1, AtOnly
  <2> QED
    BY <2>1, <2>2 DEF GoesOn, Moved
<1>6. CASE OpenFails(i)
  <2>1. /\ import[i].at = "open"
        /\ import' = [import EXCEPT ![i] = [import[i] EXCEPT !.at = "failed"]]
    BY <1>6 DEF OpenFails, Goes
  <2>2. Moved(i, "failed")
    BY <2>1, AtOnly
  <2> QED
    BY <2>1, <2>2 DEF GoesOn, Moved
<1>7. CASE Write(i)
  <2>1. import[i].at = "write" /\ import[i].order # <<>>
    BY <1>7 DEF Write, TypeOK
  <2>2. CASE Goes(i, [import[i] EXCEPT !.at = "failed"])
    <3>1. import' = [import EXCEPT ![i] = [import[i] EXCEPT !.at = "failed"]]
      BY <2>2 DEF Goes
    <3>2. Moved(i, "failed")
      BY <3>1, AtOnly
    <3> QED
      BY <2>1, <3>2 DEF GoesOn, Moved
  <2>3. CASE /\ disk' = [disk EXCEPT ![import[i].target] = import[i].files[NextFile(i)]]
             /\ Goes(i, [import[i] EXCEPT
                    !.at = "test", !.order = Tail(@), !.target = None,
                    !.saved = @ \cup {<<NextFile(i), import[i].target>>}])
    BY <2>1, <2>3, <1>t DEF Goes, Saves, Fields
  <2> QED
    BY <1>7, <2>2, <2>3 DEF Write
<1>8. CASE Answer(i)
  <2>1. /\ import[i].at = "test" /\ import[i].order = <<>>
        /\ import' = [import EXCEPT ![i] = [import[i] EXCEPT !.at = "done"]]
    BY <1>8 DEF Answer, Goes
  <2>2. Moved(i, "done")
    BY <2>1, AtOnly
  <2> QED
    BY <2>1, <2>2 DEF GoesOn, Moved
<1> QED
  BY <1>1, <1>2, <1>3, <1>4, <1>5, <1>6, <1>7, <1>8 DEF Step

\* A step writes to no file but the target of an import that has it open, and
\* the README of one that is through with the walk.
LEMMA DiskStep ==
    ASSUME TypeOK, NEW i \in Imports, Step(i)
    PROVE  \A p \in DOMAIN disk :
              /\ p \in DOMAIN disk'
              /\ \/ disk'[p] = disk[p]
                 \/ import[i].at \in {"open", "write"} /\ p = import[i].target
                 \/ import[i].at = "walk" /\ Wanted[i].described /\ p = Readme(i)
<1>1. CASE UNCHANGED disk
  BY <1>1
<1>2. CASE WriteReadme(i)
  <2>1. \/ disk' = disk
        \/ /\ Wanted[i].described /\ import[i].at = "walk"
           /\ disk' = Put(disk, OneFile(Readme(i), {[name |-> <<i, 0, 0>>, auth |-> None,
                                                    base |-> FALSE]}))
    BY <1>2 DEF WriteReadme
  <2>2. ASSUME NEW v, disk' = Put(disk, OneFile(Readme(i), v))
        PROVE  \A p \in DOMAIN disk : p \in DOMAIN disk' /\ (disk'[p] = disk[p] \/ p = Readme(i))
    BY <2>2 DEF Put, OneFile
  <2> QED
    BY <2>1, <2>2
<1>3. CASE Open(i)
  BY <1>3 DEF Open, Put, OneFile
<1>4. CASE Write(i)
  BY <1>4 DEF Write
<1> QED
  BY <1>1, <1>2, <1>3, <1>4 DEF Step, Walk, WalkRaises, Test, OpenFails, Answer

LEMMA WrittenGrows ==
    ASSUME TypeOK, WalkInv, NEW i \in Imports, Step(i), NEW j \in Imports
    PROVE  Written(j) \subseteq Written(j)'
<1>1. CASE j # i
  BY <1>1, StepCases DEF Written
<1>2. CASE j = i /\ Walk(i)
  <2>1. import[i].at = "walk" /\ import'[i].saved = import[i].saved
    BY <1>2 DEF Walk, Goes, TypeOK
  <2> QED
    BY <2>1, <1>2 DEF Written
<1>3. CASE j = i /\ GoesOn(i)
  BY <1>3 DEF Written, GoesOn
<1>4. CASE j = i /\ TakesTarget(i)
  BY <1>4 DEF Written, TakesTarget
<1>5. CASE j = i /\ Saves(i)
  <2>1. /\ import[i].at = "write"
        /\ import'[i].saved = import[i].saved \cup {<<NextFile(i), import[i].target>>}
    BY <1>5 DEF Saves
  <2>2. <<NextFile(i), import[i].target>>[2] = import[i].target
    OBVIOUS
  <2> QED
    BY <2>1, <2>2, <1>5 DEF Written
<1> QED
  BY <1>1, <1>2, <1>3, <1>4, <1>5, StepCases

\* Entering a file keeps those that wait, and adds it only if it is not there.
LEMMA Entered ==
    ASSUME NEW S, NEW order \in Seq(S), NEW key
    PROVE  /\ \A n \in DOMAIN order : \E m \in DOMAIN Enter(order, key) : Enter(order, key)[m] = order[n]
           /\ \E m \in DOMAIN Enter(order, key) : Enter(order, key)[m] = key
           /\ NoneTwice(order) => NoneTwice(Enter(order, key))
<1>1. CASE key \in Range(order)
  BY <1>1 DEF Enter, Range
<1>2. CASE key \notin Range(order)
  <2> DEFINE e == Enter(order, key)
  <2>1. /\ DOMAIN e = 1..Len(order) + 1 /\ DOMAIN order = 1..Len(order) /\ Len(order) \in Nat
        /\ \A n \in 1..Len(order) : e[n] = order[n]
        /\ e[Len(order) + 1] = key
    BY <1>2 DEF Enter
  <2>2. \A n \in 1..Len(order) : order[n] # key
    BY <1>2, <2>1 DEF Range
  <2> HIDE DEF e
  <2>3. /\ \A n \in DOMAIN order : \E m \in DOMAIN e : e[m] = order[n]
        /\ \E m \in DOMAIN e : e[m] = key
    BY <2>1
  <2>4. NoneTwice(order) => NoneTwice(e)
    BY <2>1, <2>2 DEF NoneTwice
  <2> QED
    BY <2>3, <2>4 DEF e
<1> QED
  BY <1>1, <1>2

\* The sequence "longer" has everything "order" has.
Covers(longer, order) == \A n \in DOMAIN order : \E m \in DOMAIN longer : longer[m] = order[n]

\* What is entered covers what was there.
LEMMA EnterCovers ==
    ASSUME NEW S, NEW order \in Seq(S), NEW key
    PROVE  Covers(Enter(order, key), order)
BY Entered DEF Covers

\* Two names that begin alike and are the same go on alike.
LEMMA Cancel ==
    ASSUME NEW a \in Seq(STRING), NEW b \in Seq(STRING), NEW c \in Seq(STRING), a \o b = a \o c
    PROVE  b = c
<1>1. Len(a) \in Nat /\ Len(b) \in Nat /\ Len(c) \in Nat
  OBVIOUS
<1>2. Len(a) + Len(b) = Len(a) + Len(c)
  OBVIOUS
<1>3. Len(b) = Len(c)
  BY <1>1, <1>2
<1>4. ASSUME NEW n \in 1..Len(b)
      PROVE  b[n] = c[n]
  <2>1. (a \o b)[Len(a) + n] = b[n] /\ (a \o c)[Len(a) + n] = c[n]
    BY <1>1, <1>3
  <2> QED
    BY <2>1
<1>5. b = [n \in 1..Len(b) |-> b[n]] /\ c = [n \in 1..Len(c) |-> c[n]]
  OBVIOUS
<1>6. [n \in 1..Len(b) |-> b[n]] = [n \in 1..Len(b) |-> c[n]]
  BY <1>4
<1> QED
  BY <1>3, <1>5, <1>6

\* Folders of different places have different files, and none is the environment.
LEMMA FilesDiffer ==
    ASSUME NEW i \in Imports, NEW f \in DOMAIN Folders(i), NEW g \in DOMAIN Folders(i)
    PROVE  /\ File(i, f) = File(i, g) => Folders(i)[f].place = Folders(i)[g].place
           /\ Wanted[i].variables => File(i, f) # Environment(i, g)
           /\ File(i, f).dir = Wanted[i].dir \o Folders(i)[f].place
           /\ File(i, f) \in Keys(i) /\ Environment(i, f) \in Keys(i)
<1>1. \A dir, name : Path(dir, name).dir = dir /\ Path(dir, name).name = name
  BY DEF Path
<1>2. File(i, f) = File(i, g) => Folders(i)[f].place = Folders(i)[g].place
  <2>1. /\ File(i, f).dir = Wanted[i].dir \o Folders(i)[f].place
        /\ File(i, g).dir = Wanted[i].dir \o Folders(i)[g].place
    BY <1>1 DEF File
  <2>2. /\ Wanted[i].dir \in Seq(STRING)
        /\ Folders(i)[f].place \in Seq(STRING) /\ Folders(i)[g].place \in Seq(STRING)
    BY FoldersGiven
  <2>3. Wanted[i].dir \o Folders(i)[f].place = Wanted[i].dir \o Folders(i)[g].place =>
            Folders(i)[f].place = Folders(i)[g].place
    BY <2>2, Cancel
  <2> QED
    BY <2>1, <2>3
<1>3. Wanted[i].variables => File(i, f) # Environment(i, g)
  <2>1. File(i, f).name = Wanted[i].name /\ Environment(i, g).name = ".dothttp.json"
    BY <1>1 DEF File, Environment
  <2> QED
    BY <2>1, FoldersGiven
<1> QED
  BY <1>1, <1>2, <1>3 DEF File, Keys

\* What the walk does to the files of an import when it comes to a folder.
LEMMA WalkFiles ==
    ASSUME TypeOK, NEW i \in Imports, Walk(i), import[i].folder \in Nat \ {0},
           Makes(i, import[i].folder)
    PROVE  LET f == import[i].folder
               names == {File(i, f)} \cup (IF Wanted[i].variables THEN {Environment(i, f)} ELSE {})
           IN /\ DOMAIN import'[i].files = DOMAIN import[i].files \cup names
              /\ import'[i].files[File(i, f)] = Definitions(i, f)
              /\ \A k \in DOMAIN import[i].files \ names : import'[i].files[k] = import[i].files[k]
              /\ \A n \in DOMAIN import[i].order :
                    \E m \in DOMAIN import'[i].order : import'[i].order[m] = import[i].order[n]
              /\ \E m \in DOMAIN import'[i].order : import'[i].order[m] = File(i, f)
              /\ NoneTwice(import[i].order) => NoneTwice(import'[i].order)
<1> DEFINE f == import[i].folder
           file == File(i, f)
           env == Environment(i, f)
           names == {file} \cup (IF Wanted[i].variables THEN {env} ELSE {})
           own == OneFile(file, Definitions(i, f))
           files == IF Wanted[i].variables THEN Put(own, OneFile(env, {})) ELSE own
           put == Put(import[i].files, files)
           order == Enter(import[i].order, file)
           longer == IF Wanted[i].variables THEN Enter(order, env) ELSE order
<1>1. f \in DOMAIN Folders(i)
  BY FoldersGiven DEF Walk
<1>2. Wanted[i].variables => file # env
  BY <1>1, FilesDiffer
<1>3. /\ import'[i].files = put /\ import'[i].order = longer
      /\ import[i].order \in Seq(DOMAIN import[i].files)
  BY DEF Walk, Goes, TypeOK
<1> HIDE DEF file, env
<1>4. DOMAIN files = names /\ files[file] = Definitions(i, f)
  BY <1>2 DEF Put, OneFile
<1> HIDE DEF files
<1>5. /\ DOMAIN put = DOMAIN import[i].files \cup names
      /\ put[file] = Definitions(i, f)
      /\ \A k \in DOMAIN import[i].files \ names : put[k] = import[i].files[k]
  BY <1>4 DEF Put
<1>6. /\ \A n \in DOMAIN import[i].order : \E m \in DOMAIN longer : longer[m] = import[i].order[n]
      /\ \E m \in DOMAIN longer : longer[m] = file
      /\ NoneTwice(import[i].order) => NoneTwice(longer)
  <2>1. /\ \A n \in DOMAIN import[i].order : \E m \in DOMAIN order : order[m] = import[i].order[n]
        /\ \E m \in DOMAIN order : order[m] = file
        /\ NoneTwice(import[i].order) => NoneTwice(order)
        /\ order \in Seq(DOMAIN put)
    <3>1. order \in Seq(DOMAIN put)
      BY <1>3, <1>5, EnterKeeps
    <3> QED
      BY <1>3, <3>1, Entered
  <2> HIDE DEF order, put
  <2>2. /\ \A n \in DOMAIN order : \E m \in DOMAIN Enter(order, env) : Enter(order, env)[m] = order[n]
        /\ NoneTwice(order) => NoneTwice(Enter(order, env))
    <3>1. order \in Seq(DOMAIN put)
      BY <2>1
    <3> DEFINE S == DOMAIN put
    <3>2. order \in Seq(S)
      BY <3>1
    <3> HIDE DEF S
    <3>3. Covers(Enter(order, env), order)
      BY <3>2, EnterCovers
    <3>4. \A n \in DOMAIN order : \E m \in DOMAIN Enter(order, env) : Enter(order, env)[m] = order[n]
      BY <3>3 DEF Covers
    <3>5. NoneTwice(order) => NoneTwice(Enter(order, env))
      BY <3>2, Entered
    <3> QED
      BY <3>4, <3>5
  <2> QED
    BY <2>1, <2>2
<1> HIDE DEF put, longer
<1> QED
  BY <1>3, <1>5, <1>6 DEF file, env

LEMMA WalkStep ==
    ASSUME TypeOK, WalkInv, SavedInv, NEW i \in Imports, Step(i)
    PROVE  WalkInv'
<1> SUFFICES ASSUME NEW j \in Imports
             PROVE  WalkOf(j)'
  BY DEF WalkInv
<1>0. WalkOf(i) /\ WalkOf(j)
  BY DEF WalkInv
<1>1. CASE j # i
  BY <1>0, <1>1, StepCases DEF WalkOf, TakenOver
<1>2. CASE j = i /\ Walk(i)
  <2> DEFINE f == import[i].folder
  <2>1. /\ import[i].at = "walk" /\ f \in 1..Len(Folders(i)) /\ f \in DOMAIN Folders(i)
        /\ Len(Folders(i)) \in Nat
    BY <1>0, <1>2, FoldersGiven DEF Walk, WalkOf
  <2>2. import'[i].at = "walk" /\ import'[i].folder = f + 1 /\ import'[i].saved = {}
        /\ import[i].saved = {}
    BY <1>0, <1>2 DEF Walk, Goes, WalkOf, TypeOK
  <2>3. ASSUME NEW h \in 1..f - 1, ~TakenOver(i, h, f)
        PROVE  ~TakenOver(i, h, f - 1)
    BY <2>1, <2>3 DEF TakenOver
  <2>4. CASE ~Makes(i, f)
    <3>1. import'[i].files = import[i].files /\ import'[i].order = import[i].order
      BY <1>2, <2>4 DEF Walk, Goes, TypeOK
    <3>2. ASSUME NEW h \in 1..f, Makes(i, h), ~TakenOver(i, h, f)
          PROVE  h \in 1..f - 1 /\ ~TakenOver(i, h, f - 1)
      BY <2>1, <2>3, <2>4, <3>2
    <3>3. f + 1 - 1 = f
      BY <2>1
    <3>4. ASSUME NEW h \in 1..f, Makes(i, h), ~TakenOver(i, h, f)
          PROVE  /\ File(i, h) \in DOMAIN import'[i].files
                 /\ import'[i].files[File(i, h)] = Definitions(i, h)
                 /\ \E n \in DOMAIN import'[i].order : import'[i].order[n] = File(i, h)
      BY <1>0, <2>2, <3>1, <3>2, <3>4 DEF WalkOf
    <3>5. DOMAIN import'[i].files \subseteq Keys(i)
      BY <1>0, <3>1 DEF WalkOf
    <3> QED
      BY <1>2, <2>1, <2>2, <3>3, <3>4, <3>5 DEF WalkOf, TakenOver
  <2>5. CASE Makes(i, f)
    <3> DEFINE names == {File(i, f)} \cup (IF Wanted[i].variables THEN {Environment(i, f)} ELSE {})
    <3>1. /\ DOMAIN import'[i].files = DOMAIN import[i].files \cup names
          /\ import'[i].files[File(i, f)] = Definitions(i, f)
          /\ \A k \in DOMAIN import[i].files \ names : import'[i].files[k] = import[i].files[k]
          /\ \A n \in DOMAIN import[i].order :
                \E m \in DOMAIN import'[i].order : import'[i].order[m] = import[i].order[n]
          /\ \E m \in DOMAIN import'[i].order : import'[i].order[m] = File(i, f)
      BY <1>2, <2>1, <2>5, WalkFiles
    <3>2. DOMAIN import'[i].files \subseteq Keys(i)
      <4>1. File(i, f) \in Keys(i) /\ Environment(i, f) \in Keys(i)
        BY <2>1, FilesDiffer
      <4>2. DOMAIN import[i].files \subseteq Keys(i)
        BY <1>0 DEF WalkOf
      <4>3. names \subseteq Keys(i)
        BY <4>1
      <4> QED
        BY <3>1, <4>2, <4>3
    <3>3. ASSUME NEW h \in 1..f, Makes(i, h), ~TakenOver(i, h, f)
          PROVE  /\ File(i, h) \in DOMAIN import'[i].files
                 /\ import'[i].files[File(i, h)] = Definitions(i, h)
                 /\ \E n \in DOMAIN import'[i].order : import'[i].order[n] = File(i, h)
      <4>1. CASE h = f
        BY <3>1, <4>1
      <4>2. CASE h # f
        <5>1. h \in 1..f - 1 /\ h \in DOMAIN Folders(i)
          BY <2>1, <4>2, FoldersGiven
        <5>2. Folders(i)[f].place # Folders(i)[h].place
          BY <2>1, <2>5, <3>3, <5>1 DEF TakenOver
        <5>3. File(i, h) \notin names
          BY <2>1, <5>1, <5>2, FilesDiffer
        <5>4. /\ File(i, h) \in DOMAIN import[i].files
              /\ import[i].files[File(i, h)] = Definitions(i, h)
              /\ \E n \in DOMAIN import[i].order : import[i].order[n] = File(i, h)
          BY <1>0, <2>2, <2>3, <3>3, <5>1 DEF WalkOf
        <5> QED
          BY <3>1, <5>3, <5>4
      <4> QED
        BY <4>1, <4>2
    <3>4. f + 1 - 1 = f
      BY <2>1
    <3> QED
      BY <1>2, <2>1, <2>2, <3>2, <3>3, <3>4 DEF WalkOf, TakenOver
  <2> QED
    BY <2>4, <2>5
<1>3. CASE j = i /\ GoesOn(i)
  <2>1. import'[i].at \in {"test", "open", "write", "done"} => import[i].folder = Len(Folders(i)) + 1
    BY <1>0, <1>3, FoldersGiven DEF GoesOn, WalkOf
  <2> QED
    BY <1>0, <1>3, <2>1 DEF GoesOn, WalkOf, TakenOver
<1>4. CASE j = i /\ TakesTarget(i)
  BY <1>0, <1>4 DEF TakesTarget, WalkOf, TakenOver
<1>5. CASE j = i /\ Saves(i)
  <2>1. import[i].order \in Seq(DOMAIN import[i].files) /\ import[i].order # <<>>
    BY <1>5 DEF Saves, TypeOK
  <2>2. \A n \in DOMAIN import[i].order :
            \/ import[i].order[n] = NextFile(i)
            \/ \E m \in DOMAIN Tail(import[i].order) : Tail(import[i].order)[m] = import[i].order[n]
    <3> SUFFICES ASSUME NEW n \in DOMAIN import[i].order, n # 1
                 PROVE  \E m \in DOMAIN Tail(import[i].order) :
                            Tail(import[i].order)[m] = import[i].order[n]
      BY <2>1 DEF NextFile
    <3>1. n - 1 \in DOMAIN Tail(import[i].order)
          /\ Tail(import[i].order)[n - 1] = import[i].order[n]
      BY <2>1
    <3> QED
      BY <3>1
  <2>3. <<NextFile(i), import[i].target>>[1] = NextFile(i)
    OBVIOUS
  <2>4. /\ import[i].at = "write" /\ import'[i].at = "test"
        /\ import'[i].folder = import[i].folder /\ import'[i].files = import[i].files
        /\ import'[i].order = Tail(import[i].order)
        /\ import'[i].saved = import[i].saved \cup {<<NextFile(i), import[i].target>>}
    BY <1>5 DEF Saves
  <2>5. ASSUME NEW k, \/ \E n \in DOMAIN import[i].order : import[i].order[n] = k
                      \/ \E s \in import[i].saved : s[1] = k
        PROVE  \/ \E n \in DOMAIN import'[i].order : import'[i].order[n] = k
               \/ \E s \in import'[i].saved : s[1] = k
    BY <2>2, <2>3, <2>4, <2>5
  <2>6. ASSUME NEW f \in 1..import[i].folder - 1,
               Makes(i, f), ~TakenOver(i, f, import[i].folder - 1)
        PROVE  /\ File(i, f) \in DOMAIN import'[i].files
               /\ import'[i].files[File(i, f)] = Definitions(i, f)
               /\ \/ \E n \in DOMAIN import'[i].order : import'[i].order[n] = File(i, f)
                  \/ \E s \in import'[i].saved : s[1] = File(i, f)
    <3>1. /\ File(i, f) \in DOMAIN import[i].files
          /\ import[i].files[File(i, f)] = Definitions(i, f)
          /\ \/ \E n \in DOMAIN import[i].order : import[i].order[n] = File(i, f)
             \/ \E s \in import[i].saved : s[1] = File(i, f)
      BY <1>0, <2>6 DEF WalkOf
    <3> QED
      BY <2>4, <2>5, <3>1
  <2>7. /\ import'[i].folder \in 1..Len(Folders(i)) + 1
        /\ import'[i].folder = Len(Folders(i)) + 1
        /\ DOMAIN import'[i].files \subseteq Keys(i)
    BY <1>0, <2>4 DEF WalkOf
  <2> QED
    BY <1>5, <2>4, <2>6, <2>7 DEF WalkOf, TakenOver
<1> QED
  BY <1>1, <1>2, <1>3, <1>4, <1>5, StepCases

\* A file that was saved stays as it is, or another import writes to it.
LEMMA SavedStays ==
    ASSUME TypeOK, WalkInv, SavedInv, NEW i \in Imports, Step(i),
           NEW j \in Imports, NEW s \in import[j].saved
    PROVE  /\ s[2] \in DOMAIN disk'
           /\ \/ disk'[s[2]] = import[j].files[s[1]]
              \/ \E k \in Imports \ {j} : s[2] \in Written(k)'
<1>1. /\ s[1] \in DOMAIN import[j].files
      /\ \A n \in DOMAIN import[j].order : import[j].order[n] # s[1]
      /\ NamedFor(s[1], s[2])
      /\ s[2] \in DOMAIN disk
      /\ \/ disk[s[2]] = import[j].files[s[1]]
         \/ \E k \in Imports \ {j} : s[2] \in Written(k)
  BY DEF SavedInv, SavedOf
<1>2. s[2] \in DOMAIN disk'
  BY <1>1, DiskStep
<1>3. CASE \E k \in Imports \ {j} : s[2] \in Written(k)
  BY <1>2, <1>3, WrittenGrows
<1>4. CASE disk[s[2]] = import[j].files[s[1]] /\ disk'[s[2]] = disk[s[2]]
  BY <1>2, <1>4
<1>5. CASE import[i].at \in {"open", "write"} /\ s[2] = import[i].target
  <2>1. s[2] \in Written(i)
    BY <1>5 DEF Written
  <2>2. j # i
    <3> SUFFICES ASSUME j = i
                 PROVE  FALSE
      OBVIOUS
    <3>1. NamedFor(NextFile(i), import[i].target)
      BY <1>5 DEF SavedInv, SavedOf
    <3>2. import[i].order \in Seq(DOMAIN import[i].files) /\ import[i].order # <<>>
      BY <1>5 DEF TypeOK
    <3>3. /\ NextFile(i) \in DOMAIN import[i].files /\ NextFile(i) # s[1]
      BY <1>1, <3>2 DEF NextFile
    <3>4. NextFile(i) \in Keys(i) /\ s[1] \in Keys(i)
      BY <1>1, <3>3 DEF WalkInv, WalkOf
    <3>5. s[1].dir = NextFile(i).dir /\ s[1].name = NextFile(i).name
      <4>1. PICK m : s[2] = [dir |-> s[1].dir, name |-> s[1].name, second |-> m]
        BY <1>1 DEF NamedFor
      <4>2. PICK n : s[2] = [dir |-> NextFile(i).dir, name |-> NextFile(i).name, second |-> n]
        BY <1>5, <3>1 DEF NamedFor
      <4>3. s[2].dir = s[1].dir /\ s[2].name = s[1].name
        BY <4>1
      <4>4. s[2].dir = NextFile(i).dir /\ s[2].name = NextFile(i).name
        BY <4>2
      <4> QED
        BY <4>3, <4>4
    <3>6. /\ s[1] = [dir |-> s[1].dir, name |-> s[1].name, second |-> 0]
          /\ NextFile(i) = [dir |-> NextFile(i).dir, name |-> NextFile(i).name, second |-> 0]
      BY <3>4, KeysArePaths
    <3> QED
      BY <3>3, <3>5, <3>6
  <2> QED
    BY <1>2, <2>1, <2>2, WrittenGrows
<1>6. CASE import[i].at = "walk" /\ Wanted[i].described /\ s[2] = Readme(i)
  <2>1. s[2] \in Written(i)
    BY <1>6 DEF Written
  <2>2. j # i
    BY <1>6 DEF WalkInv, WalkOf
  <2> QED
    BY <1>2, <2>1, <2>2, WrittenGrows
<1> QED
  BY <1>1, <1>3, <1>4, <1>5, <1>6, DiskStep

LEMMA SavedStep ==
    ASSUME TypeOK, WalkInv, SavedInv, NEW i \in Imports, Step(i)
    PROVE  SavedInv'
<1> SUFFICES ASSUME NEW j \in Imports
             PROVE  SavedOf(j)'
  BY DEF SavedInv
<1>0. SavedOf(i) /\ SavedOf(j) /\ WalkOf(i)
  BY DEF SavedInv, WalkInv
<1>s. \A s \in import[j].saved :
         /\ s[2] \in DOMAIN disk'
         /\ \/ disk'[s[2]] = import[j].files[s[1]]
            \/ \E k \in Imports \ {j} : s[2] \in Written(k)'
  BY SavedStays
<1>1. CASE j # i
  <2>1. import'[j] = import[j]
    BY <1>1, StepCases
  <2> QED
    BY <1>0, <1>s, <2>1 DEF SavedOf, NextFile
<1>2. CASE j = i /\ Walk(i)
  <2>1. import'[i].at = "walk" /\ import'[i].saved = {}
    BY <1>0, <1>2 DEF Walk, Goes, WalkOf, TypeOK
  <2>2. NoneTwice(import'[i].order)
    <3>1. CASE ~Makes(i, import[i].folder)
      <4>1. import'[i].order = import[i].order
        BY <1>2, <3>1 DEF Walk, Goes, TypeOK
      <4> QED
        BY <1>0, <4>1 DEF SavedOf
    <3>2. CASE Makes(i, import[i].folder)
      <4>1. import[i].folder \in Nat \ {0}
        BY <1>0, FoldersGiven DEF WalkOf
      <4>2. NoneTwice(import[i].order)
        BY <1>0 DEF SavedOf
      <4> QED
        BY <1>2, <3>2, <4>1, <4>2, WalkFiles
    <3> QED
      BY <3>1, <3>2
  <2> QED
    BY <1>2, <2>1, <2>2 DEF SavedOf
<1>3. CASE j = i /\ GoesOn(i)
  <2>1. import'[i].at \in {"open", "write"} => import[i].at \in {"open", "write"}
    BY <1>3 DEF GoesOn
  <2> QED
    BY <1>0, <1>s, <1>3, <2>1 DEF GoesOn, SavedOf, NextFile
<1>4. CASE j = i /\ TakesTarget(i)
  BY <1>0, <1>s, <1>4 DEF TakesTarget, SavedOf, NextFile
<1>5. CASE j = i /\ Saves(i)
  <2> DEFINE order == import[i].order
             new == <<NextFile(i), import[i].target>>
  <2>1. /\ import[i].at = "write" /\ import'[i].at = "test"
        /\ import'[i].folder = import[i].folder /\ import'[i].files = import[i].files
        /\ import'[i].order = Tail(order)
        /\ import'[i].saved = import[i].saved \cup {new}
        /\ order \in Seq(DOMAIN import[i].files) /\ order # <<>>
        /\ import[i].target \in DOMAIN disk
        /\ disk' = [disk EXCEPT ![import[i].target] = import[i].files[NextFile(i)]]
    BY <1>5 DEF Saves, TypeOK
  <2>2. NoneTwice(order)
    BY <1>0 DEF SavedOf
  <2>3. /\ \A n \in DOMAIN Tail(order) : n + 1 \in DOMAIN order /\ Tail(order)[n] = order[n + 1]
        /\ DOMAIN Tail(order) \subseteq Nat /\ 1 \in DOMAIN order
        /\ NextFile(i) = order[1]
    BY <2>1 DEF NextFile
  <2>4. NoneTwice(Tail(order)) /\ \A n \in DOMAIN Tail(order) : Tail(order)[n] # NextFile(i)
    <3>1. NoneTwice(Tail(order))
      BY <2>2, <2>3 DEF NoneTwice
    <3>2. \A n \in DOMAIN Tail(order) : Tail(order)[n] # NextFile(i)
      BY <2>2, <2>3 DEF NoneTwice
    <3> QED
      BY <3>1, <3>2
  <2>5. new[1] = NextFile(i) /\ new[2] = import[i].target
    OBVIOUS
  <2> HIDE DEF new
  <2>6. /\ new[1] \in DOMAIN import[i].files
        /\ \A n \in DOMAIN Tail(order) : Tail(order)[n] # new[1]
        /\ NamedFor(new[1], new[2])
        /\ new[2] \in DOMAIN disk' /\ disk'[new[2]] = import[i].files[new[1]]
    <3>1. NextFile(i) \in DOMAIN import[i].files
      BY <2>1, <2>3
    <3>2. NamedFor(NextFile(i), import[i].target)
      BY <1>0, <2>1 DEF SavedOf
    <3> QED
      BY <2>1, <2>4, <2>5, <3>1, <3>2
  <2>7. ASSUME NEW s \in import[i].saved
        PROVE  /\ s[1] \in DOMAIN import[i].files
               /\ \A n \in DOMAIN Tail(order) : Tail(order)[n] # s[1]
               /\ NamedFor(s[1], s[2])
    BY <1>0, <2>3 DEF SavedOf
  <2> HIDE DEF order
  <2>8. \A s \in import'[i].saved :
           /\ s[1] \in DOMAIN import'[i].files
           /\ \A n \in DOMAIN import'[i].order : import'[i].order[n] # s[1]
           /\ NamedFor(s[1], s[2])
           /\ s[2] \in DOMAIN disk'
           /\ \/ disk'[s[2]] = import'[i].files[s[1]]
              \/ \E k \in Imports \ {i} : s[2] \in Written(k)'
    <3> SUFFICES ASSUME NEW s \in import'[i].saved
                 PROVE  /\ s[1] \in DOMAIN import[i].files
                        /\ \A n \in DOMAIN Tail(order) : Tail(order)[n] # s[1]
                        /\ NamedFor(s[1], s[2])
                        /\ s[2] \in DOMAIN disk'
                        /\ \/ disk'[s[2]] = import[i].files[s[1]]
                           \/ \E k \in Imports \ {i} : s[2] \in Written(k)'
      BY <2>1
    <3>1. CASE s = new
      BY <2>6, <3>1
    <3>2. CASE s \in import[i].saved
      BY <1>5, <1>s, <2>7, <3>2
    <3> QED
      BY <2>1, <3>1, <3>2
  <2>9. NoneTwice(import'[i].order)
    BY <2>1, <2>4
  <2> QED
    BY <1>5, <2>1, <2>8, <2>9 DEF SavedOf
<1> QED
  BY <1>1, <1>2, <1>3, <1>4, <1>5, StepCases

LEMMA SavedInit == Init => WalkInv /\ SavedInv
<1> SUFFICES ASSUME Init, NEW i \in Imports
             PROVE  WalkOf(i) /\ SavedOf(i)
  BY DEF WalkInv, SavedInv
<1>1. /\ import[i].at = "walk" /\ import[i].folder = 1 /\ import[i].order = <<>>
      /\ import[i].saved = {} /\ import[i].files = <<>>
  BY DEF Init
<1>2. Len(Folders(i)) \in Nat
  BY FoldersGiven
<1> QED
  BY <1>1, <1>2 DEF WalkOf, SavedOf, NoneTwice

LEMMA OthersKeepSaved ==
    ASSUME WalkInv, SavedInv, UNCHANGED <<disk, import>>
    PROVE  WalkInv' /\ SavedInv'
<1>1. WalkInv'
  BY DEF WalkInv, WalkOf, TakenOver
<1>2. SavedInv'
  BY DEF SavedInv, SavedOf, Written, NextFile
<1> QED
  BY <1>1, <1>2

LEMMA Invariance == Spec => []IInv
<1>1. Init => IInv
  BY TypeInit, FilesInit, SavedInit DEF IInv
<1>2. IInv /\ [Next]_vars => IInv'
  <2> SUFFICES ASSUME IInv, [Next]_vars
               PROVE  IInv'
    OBVIOUS
  <2>1. WalkInv' /\ SavedInv'
    <3>1. CASE \E i \in Imports : Step(i)
      BY <3>1, WalkStep, SavedStep DEF IInv
    <3>2. CASE Tick \/ UNCHANGED vars
      BY <3>2, OthersKeepSaved DEF IInv, Tick, vars
    <3> QED
      BY <3>1, <3>2 DEF Next
  <2> QED
    BY <2>1, TypeStep, FilesStep DEF IInv
<1> QED
  BY <1>1, <1>2, PTL DEF Spec

\* Every definition on the disk and in the hands of an import extends an
\* authentication or brings its own, and files wait for their turn only if
\* they have something to hold (postman2http.py:60-119, 462-470).
THEOREM TypeCorrect == Spec => []TypeOK
BY Invariance, PTL DEF IInv

\* However many imports run at once, of whatever collections, and however
\* they fail: without overwrite no file of the user's changes but a README,
\* if none has a name that carries the time (postman2http.py:456-470).
THEOREM UserFilesAreKept == Spec => []UserFilesStay
<1>1. IInv => UserFilesStay
  BY DEF IInv, FilesInv, UserFilesStay, NoneOverwrites, Protected
<1> QED
  BY <1>1, Invariance, PTL
-----------------------------------------------------------------------------
HIDE Given

\* A non-empty set of natural numbers has a least element.
LEMMA LeastElement ==
    ASSUME NEW S \in SUBSET Nat, S # {}
    PROVE  \E k \in S : \A j \in S : k <= j
<1> DEFINE R == {p \in Nat \X Nat : p[1] < p[2]}
<1>1. IsWellFoundedOn(R, Nat)
  BY NatLessThanWellFounded, Zenon DEF OpToRel
<1> HIDE DEF R
<1>2. PICK k \in S : \A j \in S : ~ (<<j, k>> \in R)
  BY <1>1, WFMin, Zenon
<1>3. \A j \in S : ~ (j < k)
  BY <1>2 DEF R
<1> QED
  BY <1>3

\* h[g] is what folder g has of the one above it: start for what is above the
\* first, next[g] of what the folder above g has for the others up to n.
TakesFromAbove(h, n, start, next, above) ==
    /\ h[0] = start
    /\ \A g \in 1..n : h[g] = next[g][h[above[g]]]

\* It is defined for all folders if each comes after the one above it.
LEMMA FromAbove ==
    ASSUME NEW L \in Nat, NEW V, NEW start \in V, NEW next \in [1..L -> [V -> V]],
           NEW above \in [1..L -> Nat], \A g \in 1..L : above[g] \in 0..g - 1
    PROVE  \E h \in [0..L -> V] : TakesFromAbove(h, L, start, next, above)
<1> DEFINE Defined(n) == \E h \in [0..n -> V] : TakesFromAbove(h, n, start, next, above)
           S == {n \in 0..L : ~Defined(n)}
<1> HIDE DEF Defined
<1>1. ASSUME S # {}
      PROVE  FALSE
  <2>0. S \in SUBSET Nat
    OBVIOUS
  <2>1. PICK n \in S : \A m \in S : n <= m
    <3> HIDE DEF S
    <3> QED
      BY <1>1, <2>0, LeastElement
  <2>2. CASE n = 0
    <3> DEFINE h == [g \in 0..0 |-> start]
    <3>1. h \in [0..0 -> V] /\ TakesFromAbove(h, 0, start, next, above)
      BY DEF TakesFromAbove
    <3>2. Defined(0)
      BY <3>1 DEF Defined
    <3> QED
      BY <2>1, <2>2, <3>2
  <2>3. CASE n # 0
    <3>1. n - 1 \in 0..L /\ n - 1 \notin S /\ n \in 1..L
      BY <2>1, <2>3
    <3>2. Defined(n - 1)
      BY <3>1
    <3>3. PICK h \in [0..n - 1 -> V] : TakesFromAbove(h, n - 1, start, next, above)
      BY <3>2 DEF Defined
    <3> DEFINE last == next[n][h[above[n]]]
               longer == [g \in 0..n |-> IF g = n THEN last ELSE h[g]]
    <3>4. last \in V
      BY <3>1
    <3>5. longer \in [0..n -> V]
      BY <3>1, <3>4
    <3>6. longer[0] = start
      BY <3>1, <3>3 DEF TakesFromAbove
    <3>7. ASSUME NEW g \in 1..n
          PROVE  longer[g] = next[g][longer[above[g]]]
      <4>1. g \in 1..L /\ above[g] \in 0..n - 1 /\ above[g] # n /\ above[g] \in 0..n
        BY <3>1
      <4>2. longer[above[g]] = h[above[g]]
        BY <4>1
      <4>3. CASE g = n
        BY <3>1, <4>2, <4>3
      <4>4. CASE g # n
        <5>1. g \in 1..n - 1 /\ longer[g] = h[g]
          BY <3>1, <4>4
        <5> QED
          BY <3>3, <4>2, <5>1 DEF TakesFromAbove
      <4> QED
        BY <4>3, <4>4
    <3> HIDE DEF longer
    <3>8. TakesFromAbove(longer, n, start, next, above)
      BY <3>6, <3>7 DEF TakesFromAbove
    <3>9. Defined(n)
      BY <3>5, <3>8 DEF Defined
    <3> QED
      BY <2>1, <3>9
  <2> QED
    BY <2>2, <2>3
<1>2. Defined(L)
  <2>1. L \in 0..L
    OBVIOUS
  <2> QED
    BY <1>1, <2>1
<1> QED
  BY <1>2 DEF Defined

\* A folder has an authentication when it or a folder above it brings one.
LEMMA AuthFromAbove ==
    ASSUME NEW i \in Imports, NEW f \in DOMAIN Folders(i)
    PROVE  AuthOf(i, f) # None <=> \E g \in Way(i, f) : Folders(i)[g].auth # None
<1> DEFINE folders == Folders(i)
           L == Len(folders)
           above == [g \in 1..L |-> folders[g].above]
           IsAuth(h) == h = [g \in 0..L |->
                               IF g = 0 THEN None
                               ELSE IF folders[g].auth # None THEN folders[g].auth
                               ELSE h[folders[g].above]]
           IsWay(h) == h = [g \in 0..L |-> IF g = 0 THEN {} ELSE {g} \cup h[folders[g].above]]
           auth == CHOOSE h : IsAuth(h)
           way == CHOOSE h : IsWay(h)
<1>1. /\ L \in Nat /\ f \in 1..L
      /\ \A g \in 1..L : folders[g].above \in 0..g - 1 /\ above[g] = folders[g].above
      /\ \A g \in 1..L : above[g] \in 0..g - 1
      /\ above \in [1..L -> Nat]
      /\ \A g \in 1..L : above[g] \in 0..L
  BY FoldersGiven
<1>2. AuthOf(i, f) = auth[f] /\ Way(i, f) = way[f]
  BY DEF AuthOf, Way
<1>3. \E h : IsAuth(h)
  <2> DEFINE V == {None} \cup {folders[g].auth : g \in 1..L}
             next == [g \in 1..L |->
                        [v \in V |-> IF folders[g].auth # None THEN folders[g].auth ELSE v]]
  <2>1. next \in [1..L -> [V -> V]] /\ None \in V
    OBVIOUS
  <2> HIDE DEF folders, L, above
  <2>2. PICK h \in [0..L -> V] :
            TakesFromAbove(h, L, None, next, above)
    <3> HIDE DEF V, next
    <3> QED
      BY <1>1, <2>1, FromAbove
  <2>3. \A g \in 1..L : h[above[g]] \in V
    BY <1>1, <2>2
  <2>4. ASSUME NEW g \in 0..L
        PROVE  h[g] = IF g = 0 THEN None
                      ELSE IF folders[g].auth # None THEN folders[g].auth
                      ELSE h[folders[g].above]
    <3>1. CASE g = 0
      BY <2>2, <3>1 DEF TakesFromAbove
    <3>2. CASE g # 0
      <4>1. g \in 1..L
        BY <1>1, <3>2
      <4>2. next[g][h[above[g]]] =
               IF folders[g].auth # None THEN folders[g].auth ELSE h[above[g]]
        BY <2>3, <4>1
      <4> QED
        BY <1>1, <2>2, <3>2, <4>1, <4>2 DEF TakesFromAbove
    <3> QED
      BY <3>1, <3>2
  <2>5. IsAuth(h)
    BY <2>2, <2>4
  <2> QED
    BY <2>5
<1>4. \E h : IsWay(h)
  <2> DEFINE V == SUBSET (0..L)
             next == [g \in 1..L |-> [v \in V |-> {g} \cup v]]
  <2>1. next \in [1..L -> [V -> V]] /\ {} \in V
    BY <1>1
  <2> HIDE DEF folders, L, above
  <2>2. PICK h \in [0..L -> V] :
            TakesFromAbove(h, L, {}, next, above)
    <3> HIDE DEF V, next
    <3> QED
      BY <1>1, <2>1, FromAbove
  <2>3. \A g \in 1..L : h[above[g]] \in V
    BY <1>1, <2>2
  <2>4. ASSUME NEW g \in 0..L
        PROVE  h[g] = IF g = 0 THEN {} ELSE {g} \cup h[folders[g].above]
    <3>1. CASE g = 0
      BY <2>2, <3>1 DEF TakesFromAbove
    <3>2. CASE g # 0
      <4>1. g \in 1..L
        BY <1>1, <3>2
      <4>2. next[g][h[above[g]]] = {g} \cup h[above[g]]
        BY <2>3, <4>1
      <4> QED
        BY <1>1, <2>2, <3>2, <4>1, <4>2 DEF TakesFromAbove
    <3> QED
      BY <3>1, <3>2
  <2>5. IsWay(h)
    BY <2>2, <2>4
  <2> QED
    BY <2>5
<1>5. IsAuth(auth) /\ IsWay(way)
  <2>1. IsAuth(auth)
    BY <1>3
  <2>2. IsWay(way)
    BY <1>4
  <2> QED
    BY <2>1, <2>2
<1> HIDE DEF auth, way
<1> DEFINE S == {g \in 0..L : ~(auth[g] # None <=> \E k \in way[g] : folders[k].auth # None)}
<1>6. S = {}
  <2> SUFFICES ASSUME S # {}
               PROVE  FALSE
    OBVIOUS
  <2> HIDE DEF folders, L, above
  <2>0. S \in SUBSET Nat
    BY <1>1
  <2>1. PICK n \in S : \A m \in S : n <= m
    <3> HIDE DEF S
    <3> QED
      BY <2>0, LeastElement
  <2>2. auth[0] = None /\ way[0] = {}
    BY <1>1, <1>5
  <2>3. n \in 1..L
    BY <2>1, <2>2, <1>1
  <2>4. /\ auth[n] = IF folders[n].auth # None THEN folders[n].auth ELSE auth[folders[n].above]
        /\ way[n] = {n} \cup way[folders[n].above]
    BY <2>3, <1>1, <1>5
  <2>5. folders[n].above \in 0..n - 1
    BY <2>3, <1>1
  <2>6. folders[n].above \in 0..L /\ folders[n].above \notin S
    BY <2>1, <2>3, <2>5, <1>1
  <2> QED
    BY <2>1, <2>4, <2>6
<1> QED
  BY <1>1, <1>2, <1>6

\* What a request that can be imported is in the file of its folder.
LEMMA RequestDefined ==
    ASSUME NEW i \in Imports, NEW f \in DOMAIN Folders(i),
           NEW r \in DOMAIN Folders(i)[f].requests,
           Folders(i)[f].requests[r] # "raises" \/ Wanted[i].kind = "har"
    PROVE  [name |-> <<i, f, r>>, auth |-> None,
            base |-> (\E g \in Way(i, f) : Folders(i)[g].auth # None)
                        /\ Folders(i)[f].requests[r] # "noauth"] \in Definitions(i, f)
<1> DEFINE inherits == \E g \in Way(i, f) : Folders(i)[g].auth # None
           requests == Folders(i)[f].requests
           imported == {q \in DOMAIN requests : requests[q] # "raises" \/ Wanted[i].kind = "har"}
<1>1. [name |-> <<i, f, r>>, auth |-> None,
       base |-> AuthOf(i, f) # None /\ requests[r] # "noauth"] \in Definitions(i, f)
  BY DEF Definitions
<1>2. (AuthOf(i, f) # None /\ requests[r] # "noauth") = (inherits /\ requests[r] # "noauth")
  BY AuthFromAbove
<1> QED
  BY <1>1, <1>2, Zenon

\* Whatever the collections and archives hold, however many imports run at
\* once, and whatever files are there: an import that is answered has saved
\* every request it could import under the place of its folder, extending an
\* authentication exactly when its folder or one above has any
\* (postman2http.py:60-119, 456-504; har2httphandler.py:148-160).
THEOREM RequestsAreSaved == Spec => []EveryRequestSaved
<1>1. IInv => EveryRequestSaved
  <2> SUFFICES ASSUME IInv, NEW i \in Imports, import[i].at = "done",
                      NEW f \in DOMAIN Folders(i),
                      \A g \in f + 1..Len(Folders(i)) :
                         Folders(i)[g].place = Folders(i)[f].place => ~Makes(i, g),
                      NEW r \in DOMAIN Folders(i)[f].requests,
                      Folders(i)[f].requests[r] # "raises" \/ Wanted[i].kind = "har"
               PROVE  \E s \in {s \in import[i].saved : s[1] = File(i, f)} :
                         /\ s[2].dir = Wanted[i].dir \o Folders(i)[f].place
                         /\ \/ [name |-> <<i, f, r>>, auth |-> None,
                                base |-> (\E g \in Way(i, f) : Folders(i)[g].auth # None)
                                            /\ Folders(i)[f].requests[r] # "noauth"] \in disk[s[2]]
                            \/ \E j \in Imports \ {i} : s[2] \in Claimed(j)
    BY DEF EveryRequestSaved
  <2> DEFINE request == [name |-> <<i, f, r>>, auth |-> None,
                         base |-> (\E g \in Way(i, f) : Folders(i)[g].auth # None)
                                     /\ Folders(i)[f].requests[r] # "noauth"]
  <2>1. request \in Definitions(i, f)
    BY RequestDefined
  <2>0. Makes(i, f)
    BY <2>1 DEF Makes
  <2> HIDE DEF request
  <2>2. WalkOf(i) /\ SavedOf(i)
    BY DEF IInv, WalkInv, SavedInv
  <2>3. import[i].folder = Len(Folders(i)) + 1 /\ import[i].order = <<>>
    BY <2>2 DEF WalkOf
  <2>4. f \in 1..import[i].folder - 1 /\ import[i].folder - 1 = Len(Folders(i))
    BY <2>3, FoldersGiven
  <2>5. ~TakenOver(i, f, import[i].folder - 1)
    BY <2>4 DEF TakenOver
  <2>6. import[i].files[File(i, f)] = Definitions(i, f)
        /\ \E s \in import[i].saved : s[1] = File(i, f)
    BY <2>0, <2>2, <2>3, <2>4, <2>5 DEF WalkOf
  <2>7. PICK s \in import[i].saved : s[1] = File(i, f)
    BY <2>6
  <2>8. /\ NamedFor(s[1], s[2])
        /\ \/ disk[s[2]] = import[i].files[s[1]]
           \/ \E j \in Imports \ {i} : s[2] \in Written(j)
    BY <2>2 DEF SavedOf
  <2>9. s[2].dir = Wanted[i].dir \o Folders(i)[f].place
    <3>1. s[2].dir = s[1].dir
      BY <2>8 DEF NamedFor
    <3> QED
      BY <2>7, <3>1, FilesDiffer
  <2>10. \A j \in Imports : Written(j) \subseteq Claimed(j)
    BY DEF Written, Claimed
  <2>11. request \in disk[s[2]] \/ \E j \in Imports \ {i} : s[2] \in Claimed(j)
    BY <2>1, <2>6, <2>7, <2>8, <2>10
  <2> QED
    BY <2>7, <2>9, <2>11 DEF request
<1> QED
  BY <1>1, Invariance, PTL

\* A place below a directory begins with it.
LEMMA Begins ==
    ASSUME NEW a \in Seq(STRING), NEW b \in Seq(STRING)
    PROVE  a \o b \in Seq(STRING) /\ IsPrefix(a, a \o b)
<1>1. Len(a) \in Nat /\ Len(b) \in Nat /\ Len(a \o b) = Len(a) + Len(b)
  OBVIOUS
<1>2. SubSeq(a, 1, Len(a)) = a /\ SubSeq(a \o b, 1, Len(a)) = a
  OBVIOUS
<1> QED
  BY <1>1, <1>2 DEF IsPrefix

\* What an import has saved is exported with the directory it was saved to,
\* if its name ends in .http or .dhttp, no name on the way to it is hidden or
\* has brackets, what it was given can be parsed and no other import took the
\* same file, whatever else there is (http2postman.py:104-109, 156-188).
THEOREM ImportsAreExported == Spec => []ExportFindsImports
<1>1. IInv => ExportFindsImports
  <2> SUFFICES ASSUME IInv, NEW i \in Imports, NEW s \in import[i].saved,
                      IsHttp(s[2]), s[2].name \notin Hidden,
                      \A n \in DOMAIN s[2].dir : s[2].dir[n] \notin Hidden \cup Bracketed,
                      Parses(import[i].files[s[1]]),
                      \A j \in Imports \ {i} : s[2] \notin Claimed(j)
               PROVE  s[2] \in Exported(Wanted[i].dir)
    BY DEF ExportFindsImports
  <2> DEFINE top == Wanted[i].dir
             dir == s[2].dir
  <2>1. s[1] \in DOMAIN import[i].files /\ NamedFor(s[1], s[2]) /\ s[2] \in DOMAIN disk
        /\ s[1] \in Keys(i)
    BY DEF IInv, SavedInv, SavedOf, WalkInv, WalkOf
  <2>0. Parses(disk[s[2]])
    <3>1. \A j \in Imports : Written(j) \subseteq Claimed(j)
      BY DEF Written, Claimed
    <3>2. disk[s[2]] = import[i].files[s[1]]
      BY <3>1 DEF IInv, SavedInv, SavedOf
    <3> QED
      BY <3>2
  <2>2. PICK f \in DOMAIN Folders(i) : s[1] \in {File(i, f), Environment(i, f)}
    BY <2>1 DEF Keys
  <2>3. s[1].dir = top \o Folders(i)[f].place
    <3>1. \A d, name : Path(d, name).dir = d
      BY DEF Path
    <3> QED
      BY <2>2, <3>1 DEF File, Environment
  <2>4. dir = s[1].dir
    BY <2>1 DEF NamedFor
  <2>5. top \in Seq(STRING) /\ Folders(i)[f].place \in Seq(STRING)
    BY FoldersGiven
  <2>6. dir \in Seq(STRING) /\ IsPrefix(top, dir)
    BY <2>3, <2>4, <2>5, Begins
  <2>7. ASSUME NEW n \in Len(top)..Len(dir)
        PROVE  ContainsHttpFiles(SubSeq(dir, 1, n))
    <3>1. n \in Nat /\ n <= Len(dir) /\ DOMAIN dir = 1..Len(dir)
      BY <2>5, <2>6, <2>7
    <3>2. Len(SubSeq(dir, 1, n)) = n
      BY <2>6, <3>1
    <3>3. SubSeq(SubSeq(dir, 1, n), 1, n) = SubSeq(dir, 1, n)
      BY <2>6, <3>1
    <3>4. IsPrefix(SubSeq(dir, 1, n), dir)
      BY <3>1, <3>2, <3>3 DEF IsPrefix
    <3>5. \A m \in Len(SubSeq(dir, 1, n)) + 1..Len(dir) : dir[m] \notin Hidden
      BY <3>1, <3>2
    <3>6. \A m \in DOMAIN SubSeq(dir, 1, n) : SubSeq(dir, 1, n)[m] \notin Bracketed
      BY <2>6, <3>1
    <3> QED
      BY <2>1, <3>4, <3>5, <3>6 DEF ContainsHttpFiles
  <2> QED
    BY <2>0, <2>1, <2>6, <2>7 DEF Exported
<1> QED
  BY <1>1, Invariance, PTL

-----------------------------------------------------------------------------
\* From here on the files of FsHandlers.  Paths.
Paths == Seq(STRING)

LEMMA SamePath ==
    ASSUME NEW a \in Paths, NEW b \in Paths, Len(a) = Len(b), \A n \in 1..Len(a) : a[n] = b[n]
    PROVE  a = b
<1>1. a = [n \in 1..Len(a) |-> a[n]] /\ b = [n \in 1..Len(b) |-> b[n]]
  BY DEF Paths
<1>2. [n \in 1..Len(a) |-> a[n]] = [n \in 1..Len(a) |-> b[n]]
  OBVIOUS
<1> QED
  BY <1>1, <1>2

LEMMA CutPath ==
    ASSUME NEW p \in Paths, NEW m \in 1..Len(p) + 1, NEW n \in m - 1..Len(p)
    PROVE  /\ SubSeq(p, m, n) \in Paths
           /\ Len(SubSeq(p, m, n)) = n - m + 1
           /\ \A i \in 1..n - m + 1 : SubSeq(p, m, n)[i] = p[m + i - 1]
<1>1. Len(p) \in Nat
  BY DEF Paths
<1> QED
  BY <1>1 DEF Paths

LEMMA CutFirst ==
    ASSUME NEW p \in Paths, NEW n \in 0..Len(p)
    PROVE  /\ SubSeq(p, 1, n) \in Paths
           /\ Len(SubSeq(p, 1, n)) = n
           /\ \A i \in 1..n : SubSeq(p, 1, n)[i] = p[i]
<1>1. Len(p) \in Nat
  BY DEF Paths
<1>2. 1 \in 1..Len(p) + 1 /\ n \in 1 - 1..Len(p) /\ n - 1 + 1 = n /\ n \in Nat
  BY <1>1
<1>3. /\ SubSeq(p, 1, n) \in Paths
      /\ Len(SubSeq(p, 1, n)) = n - 1 + 1
      /\ \A i \in 1..n - 1 + 1 : SubSeq(p, 1, n)[i] = p[1 + i - 1]
  BY <1>2, CutPath
<1> QED
  BY <1>2, <1>3

LEMMA CutRest ==
    ASSUME NEW p \in Paths, NEW k \in 0..Len(p)
    PROVE  /\ SubSeq(p, k + 1, Len(p)) \in Paths
           /\ Len(SubSeq(p, k + 1, Len(p))) = Len(p) - k
           /\ \A i \in 1..Len(p) - k : SubSeq(p, k + 1, Len(p))[i] = p[k + i]
<1>1. Len(p) \in Nat
  BY DEF Paths
<1>2. k + 1 \in 1..Len(p) + 1 /\ Len(p) \in (k + 1) - 1..Len(p) /\ Len(p) - (k + 1) + 1 = Len(p) - k
  BY <1>1
<1>3. /\ SubSeq(p, k + 1, Len(p)) \in Paths
      /\ Len(SubSeq(p, k + 1, Len(p))) = Len(p) - (k + 1) + 1
      /\ \A i \in 1..Len(p) - (k + 1) + 1 : SubSeq(p, k + 1, Len(p))[i] = p[(k + 1) + i - 1]
  BY <1>2, CutPath
<1> DEFINE rest == SubSeq(p, k + 1, Len(p))
<1> HIDE DEF rest
<1>4. ASSUME NEW i \in 1..Len(p) - k
      PROVE  rest[i] = p[k + i]
  <2>1. i \in 1..Len(p) - (k + 1) + 1 /\ (k + 1) + i - 1 = k + i
    BY <1>1
  <2>2. rest[i] = p[(k + 1) + i - 1]
    BY <1>3, <2>1 DEF rest
  <2> QED
    BY <2>1, <2>2
<1> QED
  BY <1>2, <1>3, <1>4 DEF rest

LEMMA JoinPaths ==
    ASSUME NEW p \in Paths, NEW q \in Paths
    PROVE  /\ p \o q \in Paths
           /\ Len(p \o q) = Len(p) + Len(q)
           /\ \A i \in 1..Len(p) : (p \o q)[i] = p[i]
           /\ \A i \in 1..Len(q) : (p \o q)[Len(p) + i] = q[i]
           /\ Len(p) \in Nat /\ Len(q) \in Nat
BY DEF Paths

\* Len of a path, and which paths are under another, by the names on them.
LEMMA UnderNames ==
    ASSUME NEW p \in Paths, NEW q \in Paths
    PROVE  /\ Len(p) \in Nat /\ Len(q) \in Nat
           /\ p # <<>> => Len(p) > 0
           /\ Under(p, q) <=> Len(p) > Len(q) /\ \A i \in 1..Len(q) : p[i] = q[i]
<1>1. Len(p) \in Nat /\ Len(q) \in Nat /\ (p # <<>> => Len(p) > 0)
  BY DEF Paths
<1>2. ASSUME Len(p) > Len(q)
      PROVE  SubSeq(p, 1, Len(q)) = q <=> \A i \in 1..Len(q) : p[i] = q[i]
  <2> DEFINE c == SubSeq(p, 1, Len(q))
  <2>1. c \in Paths /\ Len(c) = Len(q) /\ \A i \in 1..Len(q) : c[i] = p[i]
    BY <1>1, <1>2, CutPath
  <2> HIDE DEF c
  <2> QED
    BY <2>1, SamePath DEF c
<1> QED
  BY <1>1, <1>2 DEF Under

LEMMA ParentNames ==
    ASSUME NEW p \in Paths, p # <<>>
    PROVE  /\ Parent(p) \in Paths /\ Len(Parent(p)) = Len(p) - 1
           /\ \A i \in 1..Len(p) - 1 : Parent(p)[i] = p[i]
<1>1. Len(p) \in Nat \ {0} /\ Len(p) - 1 \in 0..Len(p)
  BY DEF Paths
<1> QED
  BY <1>1, CutFirst DEF Parent

\* What is under d has d above it, or what is above it is under d.
LEMMA ParentUnder ==
    ASSUME NEW p \in Paths, p # <<>>, NEW d \in Paths
    PROVE  Under(p, d) <=> Parent(p) = d \/ Under(Parent(p), d)
<1> DEFINE a == Parent(p)
<1>1. /\ a \in Paths /\ Len(a) = Len(p) - 1 /\ \A i \in 1..Len(p) - 1 : a[i] = p[i]
      /\ Len(p) \in Nat \ {0} /\ Len(d) \in Nat
  BY ParentNames, UnderNames
<1>2. Under(p, d) <=> Len(p) > Len(d) /\ \A i \in 1..Len(d) : p[i] = d[i]
  BY UnderNames
<1>3. Under(a, d) <=> Len(a) > Len(d) /\ \A i \in 1..Len(d) : a[i] = d[i]
  BY <1>1, UnderNames
<1> HIDE DEF a
<1>4. ASSUME Len(a) = Len(d), \A i \in 1..Len(d) : p[i] = d[i]
      PROVE  a = d
  BY <1>1, <1>4, SamePath
<1>5. Under(p, d) => a = d \/ Under(a, d)
  BY <1>1, <1>2, <1>3, <1>4
<1>6. a = d \/ Under(a, d) => Under(p, d)
  BY <1>1, <1>2, <1>3
<1> QED
  BY <1>5, <1>6 DEF a

\* The children of a directory are the paths it is the parent of.
LEMMA ChildOf ==
    ASSUME NEW p \in Paths, p # <<>>, NEW d \in Paths
    PROVE  Parent(p) = d <=> Len(p) = Len(d) + 1 /\ Under(p, d)
<1>1. /\ Parent(p) \in Paths /\ Len(Parent(p)) = Len(p) - 1
      /\ Len(p) \in Nat \ {0} /\ Len(d) \in Nat
  BY ParentNames, UnderNames
<1>2. Under(Parent(p), d) => Len(Parent(p)) > Len(d)
  BY <1>1, UnderNames
<1> QED
  BY <1>1, <1>2, ParentUnder

\* The paths above a path and itself.
LEMMA AboveNames ==
    ASSUME NEW p \in Paths, NEW a \in Above(p)
    PROVE  /\ a \in Paths /\ a # <<>>
           /\ Parent(a) = <<>> \/ Parent(a) \in Above(p)
<1>1. PICK n \in 1..Len(p) : a = SubSeq(p, 1, n)
  BY DEF Above
<1>2. Len(p) \in Nat
  BY UnderNames
<1>3. a \in Paths /\ Len(a) = n /\ \A i \in 1..n : a[i] = p[i]
  BY <1>1, <1>2, CutFirst
<1>4. a # <<>>
  BY <1>1, <1>2, <1>3
<1>5. Parent(a) = SubSeq(p, 1, n - 1)
  <2>1. /\ SubSeq(p, 1, n - 1) \in Paths /\ Len(SubSeq(p, 1, n - 1)) = n - 1
        /\ \A i \in 1..n - 1 : SubSeq(p, 1, n - 1)[i] = p[i]
    <3>1. n - 1 \in 0..Len(p)
      BY <1>2
    <3> QED
      BY <3>1, CutFirst
  <2>2. /\ Parent(a) \in Paths /\ Len(Parent(a)) = n - 1
        /\ \A i \in 1..n - 1 : Parent(a)[i] = a[i]
    <3>1. /\ Parent(a) \in Paths /\ Len(Parent(a)) = Len(a) - 1
          /\ \A i \in 1..Len(a) - 1 : Parent(a)[i] = a[i]
      BY <1>3, <1>4, ParentNames
    <3> QED
      BY <1>3, <3>1
  <2> DEFINE cut == SubSeq(p, 1, n - 1)
  <2> HIDE DEF cut
  <2>3. ASSUME NEW i \in 1..n - 1
        PROVE  cut[i] = Parent(a)[i]
    <3>1. i \in 1..n
      BY <1>2
    <3> QED
      BY <1>3, <2>1, <2>2, <3>1 DEF cut
  <2>4. cut \in Paths /\ Len(cut) = n - 1
    BY <2>1 DEF cut
  <2>5. cut = Parent(a)
    BY <2>2, <2>3, <2>4, SamePath
  <2> QED
    BY <2>5 DEF cut
<1>6. CASE n = 1
  <2>1. Parent(a) \in Paths /\ Len(Parent(a)) = 0
    <3>1. Len(Parent(a)) = Len(a) - 1 /\ Parent(a) \in Paths
      BY <1>3, <1>4, ParentNames
    <3> QED
      BY <1>3, <1>6, <3>1
  <2>2. Parent(a) = <<>>
    BY <2>1 DEF Paths
  <2> QED
    BY <1>3, <1>4, <2>2
<1>7. CASE n # 1
  <2>1. n - 1 \in 1..Len(p)
    BY <1>2, <1>7
  <2> QED
    BY <1>3, <1>4, <1>5, <2>1 DEF Above
<1> QED
  BY <1>3, <1>4, <1>6, <1>7

LEMMA AboveSelf ==
    ASSUME NEW p \in Paths, p # <<>>
    PROVE  p \in Above(p)
<1>1. Len(p) \in Nat \ {0}
  BY UnderNames
<1>2. SubSeq(p, 1, Len(p)) = p
  <2>1. Len(p) \in 0..Len(p)
    BY <1>1
  <2> QED
    BY <2>1, CutFirst, SamePath
<1>3. Len(p) \in 1..Len(p)
  BY <1>1
<1> QED
  BY <1>2, <1>3 DEF Above

\* Where what is in a tree at s goes when the tree is moved to d.
Relocated(p, s, d) == d \o SubSeq(p, Len(s) + 1, Len(p))

LEMMA RelocatedPath ==
    ASSUME NEW s \in Paths, s # <<>>, NEW d \in Paths, d # <<>>, NEW p \in Paths,
           p = s \/ Under(p, s)
    PROVE  LET q == Relocated(p, s, d) IN
           /\ q \in Paths /\ q # <<>>
           /\ Relocated(q, d, s) = p
           /\ p = s <=> q = d
           /\ p # s => Under(q, d)
           /\ p # s => Parent(q) = Relocated(Parent(p), s, d)
<1> DEFINE rest == SubSeq(p, Len(s) + 1, Len(p))
           q == d \o rest
           back == SubSeq(q, Len(d) + 1, Len(q))
<1>1. /\ Len(p) \in Nat /\ Len(s) \in Nat \ {0} /\ Len(d) \in Nat \ {0} /\ Len(p) >= Len(s)
      /\ \A i \in 1..Len(s) : p[i] = s[i]
      /\ p # s => Len(p) > Len(s)
  BY UnderNames
<1>2. /\ rest \in Paths /\ Len(rest) = Len(p) - Len(s)
      /\ \A i \in 1..Len(p) - Len(s) : rest[i] = p[Len(s) + i]
  <2>1. Len(s) \in 0..Len(p)
    BY <1>1
  <2> QED
    BY <2>1, CutRest
<1> HIDE DEF rest
<1>3. /\ q \in Paths /\ Len(q) = Len(d) + Len(p) - Len(s)
      /\ \A i \in 1..Len(d) : q[i] = d[i]
      /\ \A i \in 1..Len(rest) : q[Len(d) + i] = rest[i]
  BY <1>1, <1>2, JoinPaths
<1> HIDE DEF q
<1>4. q # <<>>
  BY <1>1, <1>3
<1>5. Relocated(q, d, s) = p
  <2>1. /\ back \in Paths /\ Len(back) = Len(p) - Len(s)
        /\ \A i \in 1..Len(p) - Len(s) : back[i] = q[Len(d) + i]
    <3>1. Len(d) \in 0..Len(q) /\ Len(q) - Len(d) = Len(p) - Len(s)
      BY <1>1, <1>3
    <3>2. /\ back \in Paths /\ Len(back) = Len(q) - Len(d)
          /\ \A i \in 1..Len(q) - Len(d) : back[i] = q[Len(d) + i]
      BY <1>3, <3>1, CutRest
    <3> QED
      BY <3>1, <3>2
  <2> HIDE DEF back
  <2>2. /\ s \o back \in Paths /\ Len(s \o back) = Len(s) + Len(back)
        /\ \A i \in 1..Len(s) : (s \o back)[i] = s[i]
        /\ \A i \in 1..Len(back) : (s \o back)[Len(s) + i] = back[i]
    BY <2>1, JoinPaths
  <2>3. ASSUME NEW i \in 1..Len(p)
        PROVE  (s \o back)[i] = p[i]
    <3>1. CASE i \in 1..Len(s)
      BY <1>1, <2>2, <3>1
    <3>2. CASE i \notin 1..Len(s)
      <4> DEFINE j == i - Len(s)
      <4>1. j \in 1..Len(p) - Len(s) /\ i = Len(s) + j
        BY <1>1, <3>2
      <4> HIDE DEF j
      <4> QED
        BY <1>2, <1>3, <2>1, <2>2, <4>1
    <3> QED
      BY <3>1, <3>2
  <2>4. Len(s \o back) = Len(p)
    BY <1>1, <2>1, <2>2
  <2>5. s \o back = p
    BY <2>2, <2>3, <2>4, SamePath
  <2> QED
    BY <2>5 DEF Relocated, back
<1>6. p = s <=> q = d
  <2>1. p = s => q = d
    BY <1>1, <1>3, SamePath
  <2>2. p # s => q # d
    BY <1>1, <1>3
  <2> QED
    BY <2>1, <2>2
<1>7. p # s => Under(q, d)
  BY <1>1, <1>3, UnderNames
<1>8. ASSUME p # s
      PROVE  Parent(q) = Relocated(Parent(p), s, d)
  <2> DEFINE a == Parent(p)
             cut == SubSeq(a, Len(s) + 1, Len(a))
  <2>1. p # <<>> /\ Len(p) > Len(s)
    BY <1>1, <1>8
  <2>2. a \in Paths /\ Len(a) = Len(p) - 1 /\ \A i \in 1..Len(p) - 1 : a[i] = p[i]
    BY <2>1, ParentNames
  <2> HIDE DEF a
  <2>3. /\ cut \in Paths /\ Len(cut) = Len(p) - 1 - Len(s)
        /\ \A i \in 1..Len(p) - 1 - Len(s) : cut[i] = a[Len(s) + i]
    <3>1. Len(s) \in 0..Len(a) /\ Len(a) - Len(s) = Len(p) - 1 - Len(s)
      BY <1>1, <2>1, <2>2
    <3>2. /\ cut \in Paths /\ Len(cut) = Len(a) - Len(s)
          /\ \A i \in 1..Len(a) - Len(s) : cut[i] = a[Len(s) + i]
      BY <2>2, <3>1, CutRest
    <3> QED
      BY <3>1, <3>2
  <2> HIDE DEF cut
  <2>4. /\ d \o cut \in Paths /\ Len(d \o cut) = Len(d) + Len(cut)
        /\ \A i \in 1..Len(d) : (d \o cut)[i] = d[i]
        /\ \A i \in 1..Len(cut) : (d \o cut)[Len(d) + i] = cut[i]
    BY <2>3, JoinPaths
  <2>5. /\ Parent(q) \in Paths /\ Len(Parent(q)) = Len(q) - 1
        /\ \A i \in 1..Len(q) - 1 : Parent(q)[i] = q[i]
    BY <1>3, <1>4, ParentNames
  <2>6. ASSUME NEW i \in 1..Len(q) - 1
        PROVE  (d \o cut)[i] = q[i]
    <3>1. CASE i \in 1..Len(d)
      BY <1>1, <1>3, <2>4, <3>1
    <3>2. CASE i \notin 1..Len(d)
      <4> DEFINE j == i - Len(d)
      <4>1. j \in 1..Len(p) - 1 - Len(s) /\ i = Len(d) + j
        BY <1>1, <1>3, <3>2
      <4> HIDE DEF j
      <4>2. (d \o cut)[i] = cut[j] /\ cut[j] = a[Len(s) + j] /\ a[Len(s) + j] = p[Len(s) + j]
        BY <1>1, <2>2, <2>3, <2>4, <4>1
      <4>3. q[i] = rest[j] /\ rest[j] = p[Len(s) + j]
        BY <1>1, <1>2, <1>3, <4>1
      <4> QED
        BY <4>2, <4>3
    <3> QED
      BY <3>1, <3>2
  <2>7. Len(d \o cut) = Len(q) - 1
    BY <1>1, <1>3, <2>3, <2>4
  <2>8. Parent(q) = d \o cut
    BY <2>4, <2>5, <2>6, <2>7, SamePath
  <2> QED
    BY <2>8 DEF Relocated, cut, a
<1>9. q = Relocated(p, s, d)
  BY DEF q, rest, Relocated
<1> QED
  BY <1>3, <1>4, <1>5, <1>6, <1>7, <1>8, <1>9
-----------------------------------------------------------------------------
\* A tree of files: what is above a path is a directory, and no file has two
\* paths.
DirIn(T, p) == p = <<>> \/ (p \in DOMAIN T /\ T[p] = Dir)

TreeOf(T) ==
    /\ \A p \in DOMAIN T :
          /\ p \in Paths /\ p # <<>>
          /\ T[p] \in Files \cup {Dir}
          /\ DirIn(T, Parent(p))
    /\ \A p, q \in DOMAIN T : T[p] = T[q] /\ T[p] # Dir => p = q

\* What has a path under it is a directory, and not an empty one.
LEMMA OnTheWay ==
    ASSUME NEW T, TreeOf(T), NEW p \in DOMAIN T, NEW d \in Paths, d # <<>>, Under(p, d)
    PROVE  d \in DOMAIN T /\ T[d] = Dir /\ \E c \in DOMAIN T : Parent(c) = d
<1> DEFINE Good == d \in DOMAIN T /\ T[d] = Dir /\ \E c \in DOMAIN T : Parent(c) = d
           S == {n \in Nat : \E q \in DOMAIN T : Len(q) = n /\ Under(q, d) /\ ~Good}
<1> HIDE DEF Good
<1>1. ASSUME S # {}
      PROVE  FALSE
  <2>0. S \in SUBSET Nat
    OBVIOUS
  <2>1. PICK n \in S : \A m \in S : n <= m
    <3> HIDE DEF S
    <3> QED
      BY <1>1, <2>0, LeastElement
  <2>2. PICK q \in DOMAIN T : Len(q) = n /\ Under(q, d) /\ ~Good
    BY <2>1
  <2> DEFINE a == Parent(q)
  <2>3. q \in Paths /\ q # <<>> /\ DirIn(T, a)
    BY <2>2 DEF TreeOf
  <2>4. a \in Paths /\ Len(a) = n - 1 /\ n \in Nat
    BY <2>2, <2>3, ParentNames, UnderNames
  <2>5. a = d \/ Under(a, d)
    BY <2>2, <2>3, ParentUnder
  <2>6. CASE a = d
    BY <2>2, <2>3, <2>6 DEF Good, DirIn
  <2>7. CASE a # d
    <3>1. Len(a) > Len(d) /\ Len(d) \in Nat
      BY <2>4, <2>5, <2>7, UnderNames
    <3>2. a # <<>>
      BY <3>1
    <3>3. a \in DOMAIN T
      BY <2>3, <3>2 DEF DirIn
    <3>4. Len(a) \in S
      <4> HIDE DEF a
      <4>1. Len(a) \in Nat
        BY <2>4, UnderNames
      <4> QED
        BY <2>2, <2>5, <2>7, <3>3, <4>1
    <3>5. n <= n - 1
      <4> HIDE DEF S
      <4> QED
        BY <2>1, <2>4, <3>4
    <3> QED
      BY <2>4, <3>5
  <2> QED
    BY <2>6, <2>7
<1>2. Len(p) \in Nat
  BY UnderNames DEF TreeOf
<1>3. Good
  BY <1>1, <1>2
<1> QED
  BY <1>3 DEF Good

LEMMA PlacedFile ==
    ASSUME TreeOf(tree), NEW p \in Paths, p # <<>>, DirIn(tree, Parent(p)), ~DirIn(tree, p),
           NEW f \in Files, Dir \notin Files, \A q \in DOMAIN tree : tree[q] = f => q = p
    PROVE  TreeOf([q \in DOMAIN tree \cup {p} |-> IF q \in {p} THEN f ELSE tree[q]])
<1> DEFINE N == [q \in DOMAIN tree \cup {p} |-> IF q \in {p} THEN f ELSE tree[q]]
<1>1. /\ DOMAIN N = DOMAIN tree \cup {p} /\ N[p] = f
      /\ \A q \in DOMAIN tree : q # p => N[q] = tree[q]
  OBVIOUS
<1> HIDE DEF N
<1>2. \A a : DirIn(tree, a) => DirIn(N, a)
  BY <1>1 DEF DirIn
<1>3. ASSUME NEW q \in DOMAIN N
      PROVE  /\ q \in Paths /\ q # <<>> /\ N[q] \in Files \cup {Dir} /\ DirIn(N, Parent(q))
             /\ \A r \in DOMAIN N : N[q] = N[r] /\ N[q] # Dir => q = r
  BY <1>1, <1>2 DEF TreeOf
<1> QED
  BY <1>3 DEF TreeOf, N

LEMMA PlacedDirs ==
    ASSUME TreeOf(tree), NEW S, S \cap DOMAIN tree = {},
           \A a \in S : /\ a \in Paths /\ a # <<>>
                        /\ DirIn(tree, Parent(a)) \/ Parent(a) \in S
    PROVE  TreeOf([q \in DOMAIN tree \cup S |-> IF q \in S THEN Dir ELSE tree[q]])
<1> DEFINE N == [q \in DOMAIN tree \cup S |-> IF q \in S THEN Dir ELSE tree[q]]
<1>1. /\ DOMAIN N = DOMAIN tree \cup S /\ \A q \in S : N[q] = Dir
      /\ \A q \in DOMAIN tree : N[q] = tree[q]
  OBVIOUS
<1> HIDE DEF N
<1>2. \A a : DirIn(tree, a) \/ a \in S => DirIn(N, a)
  BY <1>1 DEF DirIn
<1>3. ASSUME NEW q \in DOMAIN N
      PROVE  /\ q \in Paths /\ q # <<>> /\ N[q] \in Files \cup {Dir} /\ DirIn(N, Parent(q))
             /\ \A r \in DOMAIN N : N[q] = N[r] /\ N[q] # Dir => q = r
  BY <1>1, <1>2 DEF TreeOf
<1> QED
  BY <1>3 DEF TreeOf, N

LEMMA RemovedLeaf ==
    ASSUME TreeOf(tree), NEW p, \A q \in DOMAIN tree : Parent(q) # p \/ p = <<>>
    PROVE  TreeOf([q \in DOMAIN tree \ {p} |-> tree[q]])
<1> DEFINE N == [q \in DOMAIN tree \ {p} |-> tree[q]]
<1>1. DOMAIN N = DOMAIN tree \ {p} /\ \A q \in DOMAIN tree \ {p} : N[q] = tree[q]
  OBVIOUS
<1> HIDE DEF N
<1>2. ASSUME NEW q \in DOMAIN N
      PROVE  /\ q \in Paths /\ q # <<>> /\ N[q] \in Files \cup {Dir} /\ DirIn(N, Parent(q))
             /\ \A r \in DOMAIN N : N[q] = N[r] /\ N[q] # Dir => q = r
  BY <1>1 DEF TreeOf, DirIn
<1> QED
  BY <1>2 DEF TreeOf, N

\* What moves with the tree at s.
MovesWith(T, s) == {p \in DOMAIN T : p = s \/ Under(p, s)}

\* A directory over an empty one or nothing, a file over a file or nothing:
\* what is at s and under it is at d and under it then.
LEMMA RenamedTree ==
    ASSUME TreeOf(tree), NEW s \in Paths, s # <<>>, NEW d \in Paths, d # <<>>, s # d,
           Renamable(s, d)
    PROVE  /\ TreeOf(Renamed(s, d))
           /\ \A q \in DOMAIN Renamed(s, d) : \E p \in DOMAIN tree : Renamed(s, d)[q] = tree[p]
<1> DEFINE N == Renamed(s, d)
           stays == {p \in DOMAIN tree : p # s /\ ~Under(p, s)}
           moved == MovesWith(tree, s)
<1>1. s \in DOMAIN tree /\ DirIn(tree, Parent(d)) /\ ~Under(d, s)
  BY DEF Renamable, Exists, IsDir, DirIn
<1>2. \A p \in DOMAIN tree : p \in Paths /\ p # <<>> /\ DirIn(tree, Parent(p))
  BY DEF TreeOf
<1>3. \A p \in DOMAIN tree : ~Under(p, d)
  <2> SUFFICES ASSUME NEW p \in DOMAIN tree, Under(p, d)
               PROVE  FALSE
    OBVIOUS
  <2>1. d \in DOMAIN tree /\ \E c \in DOMAIN tree : Parent(c) = d
    BY OnTheWay
  <2>2. PICK c \in DOMAIN tree : Parent(c) = d
    BY <2>1
  <2>3. c \in Children(d)
    BY <1>2, <2>2, ChildOf DEF Children
  <2> QED
    BY <2>1, <2>3 DEF Renamable, Exists
<1>4. DOMAIN N = stays \cup {Relocated(p, s, d) : p \in moved}
  BY DEF Renamed, MovesWith, Relocated
<1>5. \A q \in DOMAIN N :
         N[q] = IF q = d \/ Under(q, d) THEN tree[Relocated(q, d, s)] ELSE tree[q]
  BY DEF Renamed, MovesWith, Relocated
<1> HIDE DEF N
<1>6. ASSUME NEW p \in moved
      PROVE  LET q == Relocated(p, s, d) IN
             /\ q \in DOMAIN N /\ N[q] = tree[p]
             /\ q \in Paths /\ q # <<>>
             /\ q = d \/ Under(q, d)
             /\ Relocated(q, d, s) = p
             /\ p = s <=> q = d
             /\ p # s => Parent(q) = Relocated(Parent(p), s, d)
  <2> DEFINE q == Relocated(p, s, d)
  <2>1. /\ q \in Paths /\ q # <<>> /\ Relocated(q, d, s) = p
        /\ p = s <=> q = d
        /\ p # s => Under(q, d)
        /\ p # s => Parent(q) = Relocated(Parent(p), s, d)
    BY <1>2, RelocatedPath DEF MovesWith
  <2>2. q \in DOMAIN N
    BY <1>4
  <2> HIDE DEF q
  <2>3. N[q] = tree[p]
    BY <1>5, <2>1, <2>2
  <2> QED
    BY <2>1, <2>2, <2>3 DEF q
<1>7. ASSUME NEW q \in stays, q # d
      PROVE  q \in DOMAIN N /\ N[q] = tree[q]
  BY <1>3, <1>4, <1>5, <1>7
<1>8. \A q \in DOMAIN N : (q \in stays /\ q # d) \/ \E p \in moved : q = Relocated(p, s, d)
  <2>1. d = Relocated(s, s, d) /\ s \in moved
    BY <1>1, RelocatedPath DEF MovesWith
  <2> QED
    BY <1>4, <2>1
<1>9. ASSUME NEW q \in DOMAIN N
      PROVE  q \in Paths /\ q # <<>> /\ N[q] \in Files \cup {Dir} /\ DirIn(N, Parent(q))
  <2>1. CASE q \in stays /\ q # d
    <3> DEFINE a == Parent(q)
    <3>1. q \in Paths /\ q # <<>> /\ N[q] \in Files \cup {Dir} /\ DirIn(tree, a)
      BY <1>7, <2>1 DEF TreeOf
    <3>2. a # s /\ ~Under(a, s)
      BY <2>1, <3>1, ParentUnder
    <3>3. a # d
      BY <1>3, <2>1, <3>1, ParentUnder
    <3> HIDE DEF a
    <3>4. a = <<>> \/ (a \in stays /\ a # d)
      BY <3>1, <3>2, <3>3 DEF DirIn
    <3>5. DirIn(N, a)
      BY <1>7, <3>1, <3>4 DEF DirIn
    <3> QED
      BY <3>1, <3>5 DEF a
  <2>2. CASE \E p \in moved : q = Relocated(p, s, d)
    <3>1. PICK p \in moved : q = Relocated(p, s, d)
      BY <2>2
    <3>2. q \in Paths /\ q # <<>> /\ N[q] = tree[p] /\ p \in DOMAIN tree
      BY <1>6, <3>1 DEF MovesWith
    <3>3. N[q] \in Files \cup {Dir}
      BY <3>2 DEF TreeOf
    <3>4. CASE p = s
      <4> DEFINE a == Parent(d)
      <4>1. q = d
        BY <1>6, <3>1, <3>4
      <4>2. DirIn(tree, a)
        BY <1>1
      <4>3. a # s /\ ~Under(a, s)
        BY <1>1, ParentUnder
      <4>4. a # d
        <5>1. Len(a) = Len(d) - 1 /\ Len(d) \in Nat
          BY ParentNames, UnderNames
        <5> QED
          BY <5>1
      <4> HIDE DEF a
      <4>5. a = <<>> \/ (a \in stays /\ a # d)
        BY <4>2, <4>3, <4>4 DEF DirIn
      <4>6. DirIn(N, a)
        BY <1>7, <4>2, <4>5 DEF DirIn
      <4> QED
        BY <3>2, <3>3, <4>1, <4>6 DEF a
    <3>5. CASE p # s
      <4> DEFINE a == Parent(p)
      <4>1. p \in Paths /\ p # <<>> /\ Under(p, s) /\ DirIn(tree, a)
        BY <1>2, <3>2, <3>5 DEF MovesWith
      <4>2. a = s \/ Under(a, s)
        BY <4>1, ParentUnder
      <4>3. a # <<>>
        <5>1. Len(a) = Len(p) - 1 /\ Len(p) > Len(s) /\ Len(s) > 0 /\ Len(p) \in Nat /\ Len(s) \in Nat
          BY <4>1, ParentNames, UnderNames
        <5> QED
          BY <5>1
      <4>4. Parent(q) = Relocated(a, s, d)
        BY <1>6, <3>1, <3>5
      <4> HIDE DEF a
      <4>5. a \in moved /\ tree[a] = Dir
        BY <4>1, <4>2, <4>3 DEF DirIn, MovesWith
      <4>6. Relocated(a, s, d) \in DOMAIN N /\ N[Relocated(a, s, d)] = Dir
        BY <1>6, <4>5
      <4> QED
        BY <3>2, <3>3, <4>4, <4>6 DEF DirIn
    <3> QED
      BY <3>4, <3>5
  <2> QED
    BY <1>8, <2>1, <2>2
<1> DEFINE Of(q) == IF q \in stays /\ q # d THEN q ELSE Relocated(q, d, s)
<1>10. ASSUME NEW q \in DOMAIN N
       PROVE  /\ Of(q) \in DOMAIN tree /\ N[q] = tree[Of(q)]
              /\ q \in stays /\ q # d => Of(q) = q
              /\ ~(q \in stays /\ q # d) => Of(q) \in moved /\ q = Relocated(Of(q), s, d)
  <2>1. CASE q \in stays /\ q # d
    BY <1>7, <2>1
  <2>2. CASE ~(q \in stays /\ q # d)
    <3>1. PICK p \in moved : q = Relocated(p, s, d)
      BY <1>8, <2>2
    <3>2. Of(q) = p /\ N[q] = tree[p]
      BY <1>6, <2>2, <3>1
    <3> HIDE DEF Of
    <3> QED
      BY <2>2, <3>1, <3>2 DEF MovesWith
  <2> QED
    BY <2>1, <2>2
<1> HIDE DEF Of
<1>11. ASSUME NEW q \in DOMAIN N, NEW r \in DOMAIN N, N[q] = N[r], N[q] # Dir
       PROVE  q = r
  <2>1. Of(q) = Of(r)
    BY <1>10, <1>11 DEF TreeOf
  <2>2. stays \cap moved = {}
    BY DEF MovesWith
  <2> HIDE DEF stays, moved
  <2> QED
    BY <1>10, <2>1, <2>2
<1>12. TreeOf(N)
  BY <1>9, <1>11 DEF TreeOf
<1>13. \A q \in DOMAIN N : \E p \in DOMAIN tree : N[q] = tree[p]
  BY <1>10
<1> QED
  BY <1>12, <1>13 DEF N

-----------------------------------------------------------------------------
\* What a thread is doing, and what it holds while it does.
Ats == {"idle", "write", "decode", "read", "reading", "create-directory", "read-directory",
        "stat", "delete", "remove", "rmtree", "copy", "copy-open", "copy-data", "copy-stat",
        "rename", "renaming", "copytree"}
Entries == [path: Paths, kind: {"dir", "file", "listed"}]

FsRecord(r) ==
    /\ DOMAIN r = {"at", "op", "to", "source", "dest", "from", "into", "offset", "then", "todo",
                   "before", "touched", "refused", "answer"}
    /\ r.at \in Ats /\ r.op \in Ops \cup {Nothing} /\ (r.at = "idle" <=> r.op = Nothing)
    /\ r.to \in Paths /\ (r.at # "idle" => r.to # <<>>)
    /\ r.dest \in Paths /\ (r.at = "copy-open" => r.dest # <<>>)
    /\ r.from \in Files \cup {Nothing}
    /\ (r.at \in {"reading", "copy-open", "copy-data"} <=> r.from # Nothing)
    /\ r.into \in Files \cup {Nothing} /\ (r.at \in {"decode", "copy-data"} <=> r.into # Nothing)
    /\ r.offset \in Nat /\ (r.at # "copy-data" => r.offset = 0)
    /\ r.then # "answer" => r.op.kind = "rename"
    /\ r.todo \subseteq Entries
    /\ r.at \in {"write", "decode"} => r.op.kind = "write"
    /\ r.at \in {"rename", "renaming", "copytree"} => r.op.kind = "rename"
    /\ r.touched \in BOOLEAN
    /\ r.touched => r.at \in {"decode", "copy-data", "copy-stat", "rmtree"} \/ r.op.kind = "rename"

FsThreads == DOMAIN thread = Threads /\ \A t \in Threads : FsRecord(thread[t])

FsTyped ==
    /\ TreeOf(tree)
    /\ data \in [Files -> Seq(Int)]
    /\ FsThreads
    /\ spoiled \subseteq Files
    /\ ops \in 0..MaxOps
    /\ mishaps \in 0..MaxMishaps

LEMMA FsGiven ==
    /\ MaxOps \in Nat /\ MaxMishaps \in Nat
    /\ Dir \notin Files /\ Nothing \notin Files /\ Nothing # Dir /\ Nothing \notin Ops
    /\ Nothing # Error
    /\ \A o \in Ops :
          /\ o.kind \in {"write", "read", "create-directory", "read-directory", "stat",
                         "delete", "copy", "rename"}
          /\ o.path \in Paths /\ o.path # <<>> /\ o.to \in Paths
          /\ o.kind = "write" => o.content = Bad \/ o.content \in Seq(Int)
    /\ FirstData \in [Files -> Seq(Int)]
BY FsHandlersAssumption DEF FsHandlersAssumption, Paths, Error

LEMMA FirstTreeOf ==
    TreeOf(FirstTree)
<1>1. ASSUME NEW p \in DOMAIN FirstTree
      PROVE  /\ p \in Paths /\ p # <<>> /\ FirstTree[p] \in Files \cup {Dir}
             /\ DirIn(FirstTree, Parent(p))
  <2>1. /\ p \in Paths /\ p # <<>> /\ FirstTree[p] \in Files \cup {Dir}
        /\ Len(p) > 1 => DirIn(FirstTree, Parent(p))
    BY FsHandlersAssumption DEF FsHandlersAssumption, Paths, DirIn, Parent
  <2>2. ASSUME ~(Len(p) > 1)
        PROVE  Parent(p) = <<>>
    <3>1. Parent(p) \in Paths /\ Len(Parent(p)) = 0
      <4>1. Parent(p) \in Paths /\ Len(Parent(p)) = Len(p) - 1 /\ Len(p) \in Nat /\ Len(p) > 0
        BY <2>1, ParentNames, UnderNames
      <4> QED
        BY <2>2, <4>1
    <3> QED
      BY <3>1 DEF Paths
  <2> QED
    BY <2>1, <2>2 DEF DirIn
<1>2. \A p, q \in DOMAIN FirstTree : FirstTree[p] = FirstTree[q] /\ FirstTree[p] # Dir => p = q
  BY FsHandlersAssumption DEF FsHandlersAssumption
<1> QED
  BY <1>1, <1>2 DEF TreeOf

LEMMA IdleRecord ==
    ASSUME NEW a
    PROVE  /\ FsRecord(Idle(a)) /\ Idle(a).into = Nothing /\ Idle(a).from = Nothing
           /\ Idle(a).at = "idle" /\ Idle(a).answer = a
BY DEF FsRecord, Idle, Ats, Paths

LEMMA FsTypedInit ==
    ASSUME FSInit
    PROVE  FsTyped
<1>1. TreeOf(tree)
  BY FirstTreeOf DEF FSInit
<1>2. FsThreads
  BY IdleRecord DEF FSInit, FsThreads
<1>3. data \in [Files -> Seq(Int)] /\ spoiled \subseteq Files
  BY FsGiven DEF FSInit
<1>4. ops \in 0..MaxOps /\ mishaps \in 0..MaxMishaps
  <2>1. ops = 0 /\ mishaps = 0
    BY DEF FSInit
  <2> QED
    BY <2>1, FsGiven
<1> QED
  BY <1>1, <1>2, <1>3, <1>4 DEF FsTyped

\* A step of t is a step of t's record.
LEMMA OneGoes ==
    ASSUME FsThreads, NEW t \in Threads, NEW r, Becomes(t, r)
    PROVE  DOMAIN thread' = Threads /\ thread'[t] = r
           /\ \A u \in Threads : u # t => thread'[u] = thread[u]
BY DEF FsThreads, Becomes

LEMMA OneKeeps ==
    ASSUME FsThreads, NEW t \in Threads, NEW r, Becomes(t, r), FsRecord(r)
    PROVE  FsThreads'
<1>1. DOMAIN thread' = Threads /\ thread'[t] = r
      /\ \A u \in Threads : u # t => thread'[u] = thread[u]
  BY OneGoes
<1>2. \A u \in Threads : FsRecord(thread'[u])
  BY <1>1 DEF FsThreads
<1> QED
  BY <1>1, <1>2 DEF FsThreads, FsRecord

\* What a step leaves typed when it says what it does to each part.
LEMMA TypedParts ==
    ASSUME FsTyped, FsThreads', TreeOf(tree'), data' \in [Files -> Seq(Int)],
           spoiled' \subseteq Files, ops' \in 0..MaxOps, mishaps' \in 0..MaxMishaps
    PROVE  FsTyped'
<1>1. TreeOf(tree)'
  BY DEF TreeOf, DirIn, Parent
<1> QED
  BY <1>1 DEF FsTyped

-----------------------------------------------------------------------------
\* A call of t either leaves the files alone (what t does to the tree is to
\* move and remove what was there, or to make directories), or opens a file for
\* writing, or writes into it, or writes and is through with it.
KeepsValues ==
    /\ TreeOf(tree')
    /\ \A p \in DOMAIN tree' : tree'[p] = Dir \/ \E q \in DOMAIN tree : tree'[p] = tree[q]
    /\ UNCHANGED <<data, spoiled>>

HeldBy(t, f) == f = Nothing \/ f = thread[t].from \/ \E q \in DOMAIN tree : f = tree[q]

PlainStep(t, r) ==
    /\ Continues(t, r) /\ FsRecord(r)
    /\ KeepsValues
    /\ thread[t].into = Nothing /\ r.into = Nothing /\ HeldBy(t, r.from)
    /\ r.at = "idle" /\ r.answer = Error => UNCHANGED tree

IsPlain(t) == \E r : PlainStep(t, r)

Opens(t) ==
    \/ thread[t].at = "write" /\ OpenForWriting(t, thread[t].to, "decode")
    \/ thread[t].at = "copy-open" /\ OpenForWriting(t, thread[t].dest, "copy-data")

\* What t wrote is what was decoded, or all that it copies.
AllWritten(t, f, bytes) ==
    /\ f \notin spoiled
    /\ \/ /\ thread[t].at = "decode" /\ thread[t].op.content \in Seq(Int)
          /\ bytes = Over(thread[t].op.content, 0, data[f])
       \/ /\ thread[t].at = "copy-data" /\ CopiesAlone(t) /\ bytes = data[f]
          /\ thread[t].offset >= Len(data[thread[t].from])

Closes(t, f, bytes, r) ==
    /\ thread[t].into = f
    /\ Continues(t, r) /\ FsRecord(r)
    /\ r.into = Nothing /\ r.from = Nothing
    /\ bytes \in Seq(Int) /\ data' = [data EXCEPT ![f] = bytes]
    /\ spoiled' \in {spoiled, spoiled \cup {f}}
    /\ f \notin spoiled' => AllWritten(t, f, bytes)
    /\ UNCHANGED tree
    /\ \/ bytes = data[f]
       \/ thread[t].at = "decode" /\ (mishaps' # mishaps \/ r = Idle(Ok))

IsClose(t) == \E f \in Files : \E bytes, r : Closes(t, f, bytes, r)

LEMMA ThreadRecord ==
    ASSUME FsTyped, NEW t \in Threads
    PROVE  FsRecord(thread[t])
BY DEF FsTyped, FsThreads

LEMMA NotWriting ==
    ASSUME FsTyped, NEW t \in Threads, thread[t].at \notin {"decode", "copy-data"}
    PROVE  FsRecord(thread[t]) /\ thread[t].into = Nothing
BY ThreadRecord DEF FsRecord

LEMMA OkIsNoError ==
    \A x : Gives(x) # Error /\ Ok # Error
<1>1. Error.error = TRUE
  BY DEF Error
<1>2. \A x : Gives(x).error = FALSE
  BY DEF Gives
<1> QED
  BY <1>1, <1>2 DEF Ok

LEMMA SameTree ==
    ASSUME FsTyped, UNCHANGED tree
    PROVE  TreeOf(tree')
BY DEF FsTyped, TreeOf, DirIn, Parent

LEMMA SameValues ==
    ASSUME FsTyped, UNCHANGED <<tree, data, spoiled>>
    PROVE  KeepsValues
BY SameTree DEF KeepsValues

LEMMA RemovedValues ==
    ASSUME NEW S, RemovePaths(S), TreeOf(tree'), UNCHANGED <<data, spoiled>>
    PROVE  KeepsValues
BY DEF KeepsValues, RemovePaths

LEMMA DirValues ==
    ASSUME NEW S, Place(S, Dir), TreeOf(tree'), UNCHANGED <<data, spoiled>>
    PROVE  KeepsValues
<1>1. DOMAIN tree' = DOMAIN tree \cup S
      /\ \A p \in DOMAIN tree \cup S : tree'[p] = IF p \in S THEN Dir ELSE tree[p]
  BY DEF Place
<1> QED
  BY <1>1 DEF KeepsValues

\* A continuation that leaves the disk as it is.
LEMMA GoesOnHere ==
    ASSUME FsTyped, NEW t \in Threads, thread[t].at \notin {"decode", "copy-data"},
           NEW r, Continues(t, r), FsRecord(r), UNCHANGED <<tree, data, spoiled>>,
           r.at \notin {"decode", "copy-data"}, HeldBy(t, r.from)
    PROVE  IsPlain(t)
<1>1. r.into = Nothing
  BY DEF FsRecord
<1> QED
  BY <1>1, NotWriting, SameValues DEF IsPlain, PlainStep

\* An answer, of a thread that has nothing open.
LEMMA EndsHere ==
    ASSUME FsTyped, NEW t \in Threads, thread[t].at \notin {"decode", "copy-data"},
           NEW a, Answers(t, a), KeepsValues, a = Error => UNCHANGED tree
    PROVE  IsPlain(t)
<1>1. Continues(t, Idle(a))
  BY DEF Continues, Answers
<1>2. /\ FsRecord(Idle(a)) /\ Idle(a).into = Nothing /\ HeldBy(t, Idle(a).from)
      /\ Idle(a).answer = a
  BY IdleRecord DEF HeldBy
<1> QED
  BY <1>1, <1>2, NotWriting DEF IsPlain, PlainStep

LEMMA AnswersHere ==
    ASSUME FsTyped, NEW t \in Threads, thread[t].at \notin {"decode", "copy-data"},
           NEW a, Answers(t, a), UNCHANGED <<tree, data, spoiled>>
    PROVE  IsPlain(t)
BY EndsHere, SameValues

LEMMA RefusedEnds ==
    ASSUME FsTyped, NEW t \in Threads, thread[t].at \notin {"decode", "copy-data"}, Refuses(t)
    PROVE  IsPlain(t)
BY AnswersHere DEF Refuses

-----------------------------------------------------------------------------
LEMMA CutAnywhere ==
    ASSUME NEW p \in Paths, NEW k \in Nat
    PROVE  SubSeq(p, k + 1, Len(p)) \in Paths
<1>1. Len(p) \in Nat
  BY DEF Paths
<1>2. CASE k \in 0..Len(p)
  BY <1>2, CutRest
<1>3. CASE k > Len(p)
  <2>1. SubSeq(p, k + 1, Len(p)) = <<>>
    BY <1>1, <1>3 DEF Paths
  <2> QED
    BY <2>1 DEF Paths
<1> QED
  BY <1>1, <1>2, <1>3

LEMMA RemovedFile ==
    ASSUME FsTyped, NEW p, RemovePaths({p}),
           IsFile(p) \/ (p \in Paths /\ Children(p) = {})
    PROVE  TreeOf(tree')
<1>1. \A q \in DOMAIN tree : q \in Paths /\ q # <<>> /\ DirIn(tree, Parent(q))
  BY DEF FsTyped, TreeOf
<1>2. ASSUME NEW q \in DOMAIN tree, Parent(q) = p, p # <<>>
      PROVE  FALSE
  <2>1. tree[p] = Dir /\ p \in Paths
    BY <1>1, <1>2, ParentNames DEF DirIn
  <2>2. p \in Paths /\ Children(p) = {}
    BY <2>1 DEF IsFile
  <2>3. q \in Children(p)
    BY <1>1, <1>2, <2>1, ChildOf DEF Children
  <2> QED
    BY <2>2, <2>3
<1>3. TreeOf([q \in DOMAIN tree \ {p} |-> tree[q]])
  BY <1>2, RemovedLeaf DEF FsTyped
<1> QED
  BY <1>3 DEF RemovePaths

\* A child is a path, not the root's.
LEMMA ChildEntries ==
    ASSUME FsTyped, NEW d
    PROVE  {[path |-> c, kind |-> IF IsDir(c) THEN "dir" ELSE "file"] : c \in Children(d)}
             \subseteq Entries
BY DEF FsTyped, TreeOf, Children, Entries

\* Where a file or directory goes is never the root.
LEMMA IntoPath ==
    ASSUME NEW s \in Paths, s # <<>>, NEW d \in Paths
    PROVE  Into(s, d) \in Paths /\ Into(s, d) # <<>>
<1>1. Len(s) \in 1..Len(s) /\ s[Len(s)] \in STRING
  BY DEF Paths
<1>2. Append(d, s[Len(s)]) \in Paths /\ Append(d, s[Len(s)]) # <<>>
  BY <1>1 DEF Paths
<1> QED
  BY <1>2 DEF Into, IsDir

LEMMA FileOfTree ==
    ASSUME FsTyped, NEW p, IsFile(p)
    PROVE  p \in DOMAIN tree /\ p \in Paths /\ p # <<>> /\ tree[p] \in Files /\ tree[p] # Nothing
BY FsGiven DEF IsFile, Exists, FsTyped, TreeOf

LEMMA ReadPlain ==
    ASSUME FsTyped, NEW t \in Threads,
           ReadOpen(t) \/ ReadContent(t) \/ ReadDirectory(t) \/ Stat(t)
    PROVE  IsPlain(t)
<1>0. FsRecord(thread[t])
  BY ThreadRecord
<1>1. CASE ReadOpen(t)
  <2> DEFINE p == thread[t].to
             r == [thread[t] EXCEPT !.at = "reading", !.from = tree[p]]
  <2>1. /\ thread[t].at = "read"
        /\ Refuses(t) \/ (/\ IsFile(p) /\ Continues(t, r) /\ UNCHANGED <<tree, data, spoiled>>)
    BY <1>1 DEF ReadOpen
  <2>2. CASE Refuses(t)
    BY <2>1, <2>2, RefusedEnds
  <2>3. CASE IsFile(p) /\ Continues(t, r) /\ UNCHANGED <<tree, data, spoiled>>
    <3>1. p \in DOMAIN tree /\ tree[p] \in Files /\ tree[p] # Nothing
      BY <2>3, FileOfTree
    <3> HIDE DEF p
    <3>2. FsRecord(r) /\ r.at = "reading" /\ r.from = tree[p]
      BY <1>0, <2>1, <3>1 DEF FsRecord, Ats
    <3>3. HeldBy(t, r.from)
      BY <3>1, <3>2 DEF HeldBy
    <3> HIDE DEF r
    <3> QED
      BY <2>1, <2>3, <3>2, <3>3, GoesOnHere
  <2> QED
    BY <2>1, <2>2, <2>3
<1>2. CASE ReadContent(t)
  <2>1. Answers(t, Gives({data[thread[t].from]})) /\ UNCHANGED <<tree, data, spoiled>>
        /\ thread[t].at = "reading"
    BY <1>2 DEF ReadContent
  <2> QED
    BY <2>1, AnswersHere
<1>3. CASE ReadDirectory(t)
  <2>1. /\ \/ Answers(t, Gives(Children(thread[t].to))) \/ Answers(t, Error)
        /\ UNCHANGED <<tree, data, spoiled>> /\ thread[t].at = "read-directory"
    BY <1>3 DEF ReadDirectory
  <2> QED
    BY <2>1, AnswersHere
<1>4. CASE Stat(t)
  <2>1. /\ \/ Answers(t, Ok) \/ Answers(t, Error)
        /\ UNCHANGED <<tree, data, spoiled>> /\ thread[t].at = "stat"
    BY <1>4 DEF Stat
  <2> QED
    BY <2>1, AnswersHere
<1> QED
  BY <1>1, <1>2, <1>3, <1>4

LEMMA CreateDirectoryPlain ==
    ASSUME FsTyped, NEW t \in Threads, CreateDirectory(t)
    PROVE  IsPlain(t)
<1>0. thread[t].at = "create-directory"
  BY DEF CreateDirectory
<1>1. CASE Refuses(t)
  BY <1>0, <1>1, RefusedEnds
<1>2. CASE ~Refuses(t)
  <2> DEFINE p == thread[t].to
  <2>1. /\ ~Exists(p) /\ IsDir(Parent(p))
        /\ Place({p}, Dir) /\ Answers(t, Ok) /\ UNCHANGED <<data, spoiled>>
    BY <1>2 DEF CreateDirectory
  <2>2. p \in Paths /\ p # <<>>
    BY <1>0, ThreadRecord DEF FsRecord
  <2> HIDE DEF p
  <2> DEFINE S == {p}
  <2>3. S \cap DOMAIN tree = {}
    BY <2>1 DEF Exists
  <2>4. \A a \in S : a \in Paths /\ a # <<>> /\ (DirIn(tree, Parent(a)) \/ Parent(a) \in S)
    BY <2>1, <2>2 DEF IsDir, Exists, DirIn
  <2>5. tree' = [q \in DOMAIN tree \cup S |-> IF q \in S THEN Dir ELSE tree[q]]
    BY <2>1 DEF Place
  <2> HIDE DEF S
  <2>6. TreeOf(tree')
    BY <2>3, <2>4, <2>5, PlacedDirs DEF FsTyped
  <2>7. KeepsValues
    BY <2>1, <2>6, DirValues
  <2> QED
    BY <1>0, <2>1, <2>7, OkIsNoError, EndsHere
<1> QED
  BY <1>1, <1>2

LEMMA TreeToRemove ==
    ASSUME FsTyped, NEW t \in Threads, thread[t].at \in {"delete", "copytree"},
           NEW p \in Paths
    PROVE  /\ FsRecord(RemovesTree(t, p)) /\ RemovesTree(t, p).at = "rmtree"
           /\ HeldBy(t, RemovesTree(t, p).from)
<1>1. FsRecord(thread[t])
  BY ThreadRecord
<1>2. {[path |-> p, kind |-> "dir"]} \subseteq Entries
  BY DEF Entries
<1> QED
  BY <1>1, <1>2 DEF FsRecord, Ats, RemovesTree, HeldBy

LEMMA RemovePlain ==
    ASSUME FsTyped, NEW t \in Threads, DeleteTest(t) \/ RemoveFile(t)
    PROVE  IsPlain(t)
<1>0. FsRecord(thread[t])
  BY ThreadRecord
<1>1. CASE DeleteTest(t)
  <2> DEFINE r == [thread[t] EXCEPT !.at = "remove"]
             rr == RemovesTree(t, thread[t].to)
  <2>1. /\ thread[t].at = "delete" /\ UNCHANGED <<tree, data, spoiled>>
        /\ Continues(t, r) \/ Continues(t, rr)
    BY <1>1 DEF DeleteTest
  <2>2. FsRecord(r) /\ r.at = "remove" /\ HeldBy(t, r.from)
    BY <1>0, <2>1 DEF FsRecord, Ats, HeldBy
  <2>3. FsRecord(rr) /\ rr.at = "rmtree" /\ HeldBy(t, rr.from)
    BY <1>0, <2>1, TreeToRemove DEF FsRecord
  <2> HIDE DEF r, rr
  <2> QED
    BY <2>1, <2>2, <2>3, GoesOnHere
<1>2. CASE RemoveFile(t)
  <2> DEFINE p == IF thread[t].op.kind = "rename" THEN thread[t].op.path ELSE thread[t].to
  <2>0. thread[t].at = "remove"
    BY <1>2 DEF RemoveFile
  <2>1. CASE Refuses(t)
    BY <2>0, <2>1, RefusedEnds
  <2>2. CASE ~Refuses(t)
    <3>1. IsFile(p) /\ RemovePaths({p}) /\ Answers(t, Ok) /\ UNCHANGED <<data, spoiled>>
      BY <1>2, <2>2 DEF RemoveFile
    <3> HIDE DEF p
    <3>2. KeepsValues
      BY <3>1, RemovedFile, RemovedValues
    <3> QED
      BY <2>0, <3>1, <3>2, OkIsNoError, EndsHere
  <2> QED
    BY <2>1, <2>2
<1> QED
  BY <1>1, <1>2

LEMMA RemoveTreePlain ==
    ASSUME FsTyped, NEW t \in Threads, RemoveTreeStep(t)
    PROVE  IsPlain(t)
<1>0. FsRecord(thread[t]) /\ thread[t].at = "rmtree"
  BY ThreadRecord DEF RemoveTreeStep
<1>1. CASE Refuses(t)
  BY <1>0, <1>1, RefusedEnds
<1>2. CASE ~Refuses(t)
  <2>1. PICK e \in thread[t].todo :
          LET left == thread[t].todo \ {e}
              later == [thread[t] EXCEPT !.todo = left, !.touched = TRUE]
          IN \/ /\ IsFile(e.path) /\ RemovePaths({e.path}) /\ Continues(t, later)
                /\ UNCHANGED <<data, spoiled>>
             \/ /\ Continues(t, [thread[t] EXCEPT !.todo =
                            left \cup {[e EXCEPT !.kind = "listed"]}
                                 \cup {[path |-> c, kind |-> IF IsDir(c) THEN "dir" ELSE "file"] :
                                        c \in Children(e.path)}])
                /\ UNCHANGED <<tree, data, spoiled>>
             \/ /\ Children(e.path) = {}
                /\ RemovePaths({e.path})
                /\ Answers(t, Ok) \/ Continues(t, later)
                /\ UNCHANGED <<data, spoiled>>
    BY <1>2 DEF RemoveTreeStep
  <2> DEFINE left == thread[t].todo \ {e}
             later == [thread[t] EXCEPT !.todo = left, !.touched = TRUE]
             more == {[path |-> c, kind |-> IF IsDir(c) THEN "dir" ELSE "file"] :
                          c \in Children(e.path)}
             listed == [thread[t] EXCEPT !.todo = left \cup {[e EXCEPT !.kind = "listed"]} \cup more]
  <2>2. e \in Entries
    BY <1>0 DEF FsRecord
  <2>3. FsRecord(later) /\ later.at = "rmtree" /\ later.into = Nothing /\ HeldBy(t, later.from)
    BY <1>0, <2>2 DEF FsRecord, HeldBy
  <2>4. FsRecord(listed) /\ listed.at = "rmtree" /\ HeldBy(t, listed.from)
    <3>1. more \subseteq Entries
      BY ChildEntries
    <3>2. [e EXCEPT !.kind = "listed"] \in Entries
      BY <2>2 DEF Entries
    <3> HIDE DEF more
    <3> QED
      BY <1>0, <2>2, <3>1, <3>2 DEF FsRecord, HeldBy
  <2> HIDE DEF later, listed
  <2>5. CASE Continues(t, listed) /\ UNCHANGED <<tree, data, spoiled>>
    BY <1>0, <2>4, <2>5, GoesOnHere
  <2>6. CASE /\ IsFile(e.path) \/ Children(e.path) = {}
             /\ RemovePaths({e.path})
             /\ Answers(t, Ok) \/ Continues(t, later)
             /\ UNCHANGED <<data, spoiled>>
    <3>1. e.path \in Paths
      BY <2>2 DEF Entries
    <3>2. KeepsValues
      BY <2>6, <3>1, RemovedFile, RemovedValues
    <3>3. CASE Answers(t, Ok)
      BY <1>0, <3>2, <3>3, OkIsNoError, EndsHere
    <3>4. CASE Continues(t, later)
      BY <1>0, <2>3, <3>2, <3>4, NotWriting DEF IsPlain, PlainStep
    <3> QED
      BY <2>6, <3>3, <3>4
  <2> QED
    BY <2>1, <2>5, <2>6 DEF later, listed
<1> QED
  BY <1>1, <1>2

-----------------------------------------------------------------------------
\* What a copy starts from, and what copytree comes back to.
LEMMA CopyStarts ==
    ASSUME FsTyped, NEW t \in Threads, NEW self, FsRecord(self),
           self.at \in {"copy", "renaming", "copytree"},
           NEW source, IsFile(source), NEW dest \in Paths, dest # <<>>,
           NEW then, then # "answer" => self.op.kind = "rename"
    PROVE  LET r == Copying(self, source, dest, then) IN
           FsRecord(r) /\ r.at = "copy-open" /\ HeldBy(t, r.from)
<1>1. source \in DOMAIN tree /\ tree[source] \in Files /\ tree[source] # Nothing
  BY FileOfTree
<1> DEFINE from == tree[source]
           r == [self EXCEPT !.at = "copy-open", !.source = source, !.dest = dest,
                             !.from = from, !.then = then]
<1>2. Copying(self, source, dest, then) = r
  BY DEF Copying
<1>3. HeldBy(t, from)
  BY <1>1 DEF HeldBy
<1> HIDE DEF from
<1>4. FsRecord(r) /\ r.at = "copy-open" /\ r.from = from
  BY <1>1 DEF FsRecord, Ats, from
<1> QED
  BY <1>2, <1>3, <1>4

LEMMA BackRecord ==
    ASSUME NEW self, FsRecord(self), self.at \in {"copy-open", "copy-data", "copy-stat"},
           self.then = "copytree"
    PROVE  LET r == BackInTree(self)
               rr == [BackInTree(self) EXCEPT !.answer = Error]
           IN /\ FsRecord(r) /\ r.at = "copytree" /\ r.from = Nothing /\ r.into = Nothing
              /\ FsRecord(rr) /\ rr.at = "copytree" /\ rr.from = Nothing /\ rr.into = Nothing
<1>1. self.op.kind = "rename" /\ self.op # Nothing
  BY DEF FsRecord
<1>2. <<>> \in Paths
  BY DEF Paths
<1> QED
  BY <1>1, <1>2 DEF FsRecord, Ats, BackInTree

\* A copy that fails is answered, or is one of a tree's.
LEMMA FailedCopy ==
    ASSUME NEW t \in Threads, NEW self, FsRecord(self),
           self.at \in {"copy-open", "copy-data", "copy-stat"}, CopyFails(t, self)
    PROVE  \E r : /\ Continues(t, r) /\ FsRecord(r) /\ r.from = Nothing /\ r.into = Nothing
                  /\ r.at \in {"idle", "copytree"}
<1>1. CASE self.then = "copytree"
  BY <1>1, BackRecord DEF CopyFails
<1>2. CASE self.then # "copytree"
  <2>1. Continues(t, Idle(Error))
    BY <1>2 DEF CopyFails, Answers, Continues
  <2> QED
    BY <2>1, IdleRecord
<1> QED
  BY <1>1, <1>2

LEMMA FailedHere ==
    ASSUME FsTyped, NEW t \in Threads, thread[t].at \in {"copy-open", "copy-stat"},
           NEW self, FsRecord(self), self.at = thread[t].at, CopyFails(t, self),
           UNCHANGED <<tree, data, spoiled>>
    PROVE  IsPlain(t)
<1>1. PICK r : /\ Continues(t, r) /\ FsRecord(r) /\ r.from = Nothing /\ r.into = Nothing
               /\ r.at \in {"idle", "copytree"}
  BY FailedCopy
<1>2. HeldBy(t, r.from)
  BY <1>1 DEF HeldBy
<1> QED
  BY <1>1, <1>2, GoesOnHere

LEMMA CopyTestPlain ==
    ASSUME FsTyped, NEW t \in Threads, CopyTest(t)
    PROVE  IsPlain(t)
<1>0. thread[t].at = "copy" /\ FsRecord(thread[t])
  BY ThreadRecord DEF CopyTest
<1>1. CASE Refuses(t)
  BY <1>0, <1>1, RefusedEnds
<1>2. CASE ~Refuses(t)
  <2> DEFINE source == thread[t].op.path
             dest == Into(source, thread[t].op.to)
             r == Copying(thread[t], source, dest, "answer")
  <2>1. IsFile(source) /\ Continues(t, r) /\ UNCHANGED <<tree, data, spoiled>>
    BY <1>2 DEF CopyTest
  <2>2. source \in Paths /\ source # <<>> /\ thread[t].op.to \in Paths
    BY <1>0, FsGiven DEF FsRecord
  <2>3. dest \in Paths /\ dest # <<>>
    <3> HIDE DEF source
    <3> QED
      BY <2>2, IntoPath
  <2> HIDE DEF source, dest
  <2>4. FsRecord(r) /\ r.at = "copy-open" /\ HeldBy(t, r.from)
    BY <1>0, <2>1, <2>3, CopyStarts
  <2> HIDE DEF r
  <2> QED
    BY <1>0, <2>1, <2>4, GoesOnHere
<1> QED
  BY <1>1, <1>2

LEMMA CopyStatPlain ==
    ASSUME FsTyped, NEW t \in Threads, CopyStat(t)
    PROVE  IsPlain(t)
<1>0. thread[t].at = "copy-stat" /\ FsRecord(thread[t]) /\ UNCHANGED <<tree, data, spoiled>>
  BY ThreadRecord DEF CopyStat
<1> DEFINE r == [thread[t] EXCEPT !.at = "remove"]
<1>1. \/ Answers(t, Ok)
      \/ thread[t].then = "remove" /\ Continues(t, r)
      \/ thread[t].then = "copytree" /\ Continues(t, BackInTree(thread[t]))
      \/ CopyFails(t, thread[t])
  BY DEF CopyStat
<1>2. CASE Answers(t, Ok)
  BY <1>0, <1>2, AnswersHere
<1>3. CASE thread[t].then = "remove" /\ Continues(t, r)
  <2>1. FsRecord(r) /\ r.at = "remove" /\ HeldBy(t, r.from)
    <3>1. thread[t].op.kind = "rename"
      BY <1>0, <1>3 DEF FsRecord
    <3> QED
      BY <1>0, <3>1 DEF FsRecord, Ats, HeldBy
  <2> HIDE DEF r
  <2> QED
    BY <1>0, <1>3, <2>1, GoesOnHere
<1>4. CASE thread[t].then = "copytree" /\ Continues(t, BackInTree(thread[t]))
  <2> DEFINE rr == BackInTree(thread[t])
  <2>1. FsRecord(rr) /\ rr.at = "copytree" /\ rr.from = Nothing
    BY <1>0, <1>4, BackRecord
  <2>2. HeldBy(t, rr.from)
    BY <2>1 DEF HeldBy
  <2> HIDE DEF rr
  <2> QED
    BY <1>0, <1>4, <2>1, <2>2, GoesOnHere DEF rr
<1>5. CASE CopyFails(t, thread[t])
  BY <1>0, <1>5, FailedHere
<1> QED
  BY <1>1, <1>2, <1>3, <1>4, <1>5

LEMMA RenamePlain ==
    ASSUME FsTyped, NEW t \in Threads, RenameTest(t) \/ Rename(t)
    PROVE  IsPlain(t)
<1> DEFINE source == thread[t].op.path
           dest == thread[t].op.to
           to == thread[t].to
<1>0. FsRecord(thread[t]) /\ thread[t].at \in {"rename", "renaming"}
  BY ThreadRecord DEF RenameTest, Rename
<1>1. source \in Paths /\ source # <<>> /\ dest \in Paths
  BY <1>0, FsGiven DEF FsRecord
<1>2. CASE Refuses(t)
  BY <1>0, <1>2, RefusedEnds
<1>3. CASE ~Refuses(t) /\ RenameTest(t)
  <2> DEFINE real == IF source = dest THEN dest ELSE Into(source, dest)
             r == [thread[t] EXCEPT !.at = "renaming", !.to = real]
  <2>1. Continues(t, r) /\ UNCHANGED <<tree, data, spoiled>> /\ thread[t].at = "rename"
    BY <1>3 DEF RenameTest
  <2> HIDE DEF source, dest
  <2>2. real \in Paths /\ real # <<>>
    BY <1>1, IntoPath
  <2> HIDE DEF real
  <2>3. FsRecord(r) /\ r.at = "renaming" /\ HeldBy(t, r.from)
    BY <1>0, <2>1, <2>2 DEF FsRecord, Ats, HeldBy
  <2> HIDE DEF r
  <2> QED
    BY <1>0, <2>1, <2>3, GoesOnHere
<1>4. CASE Rename(t)
  <2>1. /\ Renamable(source, to) /\ Answers(t, Ok) /\ UNCHANGED <<data, spoiled>>
        /\ tree' = IF source = to THEN tree ELSE Renamed(source, to)
        /\ thread[t].at = "renaming"
    BY <1>4 DEF Rename
  <2>2. to \in Paths /\ to # <<>>
    BY <1>0 DEF FsRecord
  <2> HIDE DEF source, dest, to
  <2>3. source # to => /\ TreeOf(Renamed(source, to))
                       /\ \A q \in DOMAIN Renamed(source, to) :
                             \E p \in DOMAIN tree : Renamed(source, to)[q] = tree[p]
    BY <1>1, <2>1, <2>2, RenamedTree DEF FsTyped
  <2>4. KeepsValues
    <3>1. CASE source = to
      BY <2>1, <3>1, SameValues
    <3>2. CASE source # to
      BY <2>1, <2>3, <3>2 DEF KeepsValues
    <3> QED
      BY <3>1, <3>2
  <2> QED
    BY <1>0, <2>1, <2>4, OkIsNoError, EndsHere
<1> QED
  BY <1>2, <1>3, <1>4

LEMMA ByHandPlain ==
    ASSUME FsTyped, NEW t \in Threads, thread[t].at = "renaming",
           NEW self, FsRecord(self), self.at = "renaming", ByHand(t, self)
    PROVE  IsPlain(t)
<1> DEFINE source == self.op.path
           copied == Into(source, self.to)
           todo == {[path |-> source, kind |-> "dir"]}
           r == Copying(self, source, copied, "remove")
           rr == [self EXCEPT !.at = "copytree", !.todo = todo]
<1>1. /\ \/ IsFile(source) /\ Continues(t, r)
         \/ Continues(t, rr)
         \/ Answers(t, Error)
      /\ UNCHANGED <<tree, data, spoiled>>
  BY DEF ByHand
<1>2. self.op.kind = "rename" /\ source \in Paths /\ source # <<>> /\ self.to \in Paths
  BY FsGiven DEF FsRecord
<1>3. copied \in Paths /\ copied # <<>>
  <2> HIDE DEF source
  <2> QED
    BY <1>2, IntoPath
<1>4. todo \subseteq Entries
  BY <1>2 DEF Entries
<1> HIDE DEF source, copied, todo
<1>5. IsFile(source) => FsRecord(r) /\ r.at = "copy-open" /\ HeldBy(t, r.from)
  BY <1>2, <1>3, CopyStarts
<1>6. FsRecord(rr) /\ rr.at = "copytree" /\ HeldBy(t, rr.from)
  <2>1. self.from = Nothing
    BY DEF FsRecord
  <2> QED
    BY <1>2, <1>4, <2>1 DEF FsRecord, Ats, HeldBy
<1> HIDE DEF r, rr
<1> QED
  BY <1>1, <1>5, <1>6, GoesOnHere, AnswersHere

-----------------------------------------------------------------------------
\* The paths copytree makes directories of have a directory above them or one
\* that is made with them.
LEMMA MadeDirs ==
    ASSUME FsTyped, NEW target \in Paths, \A p \in Above(target) : ~IsFile(p),
           Place({q \in Above(target) : ~Exists(q)}, Dir)
    PROVE  TreeOf(tree')
<1> DEFINE S == {q \in Above(target) : ~Exists(q)}
<1>1. S \cap DOMAIN tree = {}
  BY DEF Exists
<1>2. ASSUME NEW a \in S
      PROVE  a \in Paths /\ a # <<>> /\ (DirIn(tree, Parent(a)) \/ Parent(a) \in S)
  <2>1. a \in Paths /\ a # <<>> /\ (Parent(a) = <<>> \/ Parent(a) \in Above(target))
    BY AboveNames
  <2>2. Parent(a) \in Above(target) => DirIn(tree, Parent(a)) \/ Parent(a) \in S
    BY DEF DirIn, Exists, IsFile
  <2> QED
    BY <2>1, <2>2 DEF DirIn
<1>3. tree' = [q \in DOMAIN tree \cup S |-> IF q \in S THEN Dir ELSE tree[q]]
  BY DEF Place
<1> HIDE DEF S
<1> QED
  BY <1>1, <1>2, <1>3, PlacedDirs DEF FsTyped

EntryTarget(t, e) == thread[t].to \o SubSeq(e.path, Len(thread[t].op.path) + 1, Len(e.path))

LEMMA TargetPath ==
    ASSUME FsTyped, NEW t \in Threads, thread[t].at = "copytree",
           NEW e \in thread[t].todo
    PROVE  /\ EntryTarget(t, e) \in Paths /\ EntryTarget(t, e) # <<>> /\ e \in Entries
           /\ thread[t].op.kind = "rename" /\ FsRecord(thread[t])
<1> DEFINE source == thread[t].op.path
           rest == SubSeq(e.path, Len(source) + 1, Len(e.path))
<1>1. FsRecord(thread[t]) /\ e \in Entries /\ thread[t].op.kind = "rename"
  BY DEF FsTyped, FsThreads, FsRecord
<1>2. source \in Paths /\ thread[t].to \in Paths /\ thread[t].to # <<>> /\ e.path \in Paths
  BY <1>1, FsGiven DEF FsRecord, Entries
<1> HIDE DEF source
<1>3. rest \in Paths
  BY <1>2, CutAnywhere DEF Paths
<1> HIDE DEF rest
<1>4. thread[t].to \o rest \in Paths /\ thread[t].to \o rest # <<>>
  <2>1. /\ thread[t].to \o rest \in Paths
        /\ Len(thread[t].to \o rest) = Len(thread[t].to) + Len(rest)
        /\ Len(thread[t].to) \in Nat /\ Len(rest) \in Nat
    BY <1>2, <1>3, JoinPaths
  <2>2. Len(thread[t].to) > 0
    BY <1>2, UnderNames
  <2>3. Len(thread[t].to \o rest) > 0
    BY <2>1, <2>2
  <2> QED
    BY <2>1, <2>3
<1> QED
  BY <1>1, <1>4 DEF EntryTarget, rest, source

\* An entry that fails is kept as an error, or the move is answered with it.
LEMMA FailedEntry ==
    ASSUME FsTyped, NEW t \in Threads, thread[t].at = "copytree",
           NEW left, FsRecord(left), left.at = "copytree",
           NEW e, EntryFails(t, e, left), UNCHANGED <<tree, data, spoiled>>
    PROVE  IsPlain(t)
<1> DEFINE r == [left EXCEPT !.answer = Error]
<1>1. CASE Answers(t, Error)
  BY <1>1, AnswersHere
<1>2. CASE Continues(t, r)
  <2>1. FsRecord(r) /\ r.at = "copytree" /\ r.from = Nothing
    BY DEF FsRecord
  <2>2. HeldBy(t, r.from)
    BY <2>1 DEF HeldBy
  <2> HIDE DEF r
  <2> QED
    BY <1>2, <2>1, <2>2, GoesOnHere
<1> QED
  BY <1>1, <1>2 DEF EntryFails

LEMMA CopyTreePlain ==
    ASSUME FsTyped, NEW t \in Threads, CopyTreeStep(t)
    PROVE  IsPlain(t)
<1>0. FsRecord(thread[t]) /\ thread[t].at = "copytree"
  BY ThreadRecord DEF CopyTreeStep
<1>1. PICK e \in thread[t].todo :
          LET target == EntryTarget(t, e)
              left == [thread[t] EXCEPT !.todo = @ \ {e}]
          IN \/ /\ \A p \in Above(target) : ~IsFile(p)
                /\ Place({q \in Above(target) : ~Exists(q)}, Dir)
                /\ Continues(t, [left EXCEPT !.touched = TRUE, !.todo =
                        @ \cup {[e EXCEPT !.kind = "listed"]}
                          \cup {[path |-> c, kind |-> IF IsDir(c) THEN "dir" ELSE "file"] :
                                 c \in Children(e.path)}])
                /\ UNCHANGED <<data, spoiled>>
             \/ /\ IsFile(e.path)
                /\ Continues(t, Copying(left, e.path, Into(e.path, target), "copytree"))
                /\ UNCHANGED <<tree, data, spoiled>>
             \/ Continues(t, left) /\ UNCHANGED <<tree, data, spoiled>>
             \/ EntryFails(t, e, left) /\ UNCHANGED <<tree, data, spoiled>>
  BY DEF CopyTreeStep, EntryTarget
<1>2. /\ EntryTarget(t, e) \in Paths /\ e \in Entries /\ e.path \in Paths
      /\ thread[t].op.kind = "rename"
  BY <1>0, TargetPath DEF Entries
<1> DEFINE target == EntryTarget(t, e)
           left == [thread[t] EXCEPT !.todo = @ \ {e}]
           more == {[path |-> c, kind |-> IF IsDir(c) THEN "dir" ELSE "file"] :
                        c \in Children(e.path)}
           entries == left.todo \cup {[e EXCEPT !.kind = "listed"]} \cup more
           r == [left EXCEPT !.touched = TRUE, !.todo = entries]
           S == {q \in Above(target) : ~Exists(q)}
<1>3. FsRecord(left) /\ left.at = "copytree" /\ left.from = Nothing /\ left.into = Nothing
      /\ left.op.kind = "rename"
  BY <1>0, <1>2 DEF FsRecord
<1>4. entries \subseteq Entries
  <2>1. more \subseteq Entries
    BY ChildEntries
  <2>2. [e EXCEPT !.kind = "listed"] \in Entries
    BY <1>2 DEF Entries
  <2> HIDE DEF more, left
  <2> QED
    BY <1>3, <2>1, <2>2 DEF FsRecord
<1>5. CASE /\ \A p \in Above(target) : ~IsFile(p)
           /\ Place(S, Dir)
           /\ Continues(t, r)
           /\ UNCHANGED <<data, spoiled>>
  <2>1. TreeOf(tree')
    BY <1>2, <1>5, MadeDirs
  <2> HIDE DEF entries, left, S
  <2>2. KeepsValues
    BY <1>5, <2>1, DirValues
  <2>3. FsRecord(r) /\ r.at = "copytree" /\ r.into = Nothing /\ r.from = Nothing
    BY <1>3, <1>4 DEF FsRecord
  <2>4. HeldBy(t, r.from)
    BY <2>3 DEF HeldBy
  <2> HIDE DEF r
  <2> QED
    BY <1>0, <1>5, <2>2, <2>3, <2>4, NotWriting DEF IsPlain, PlainStep
<1>6. CASE /\ IsFile(e.path)
           /\ Continues(t, Copying(left, e.path, Into(e.path, target), "copytree"))
           /\ UNCHANGED <<tree, data, spoiled>>
  <2> DEFINE rr == Copying(left, e.path, Into(e.path, target), "copytree")
  <2>1. e.path # <<>>
    BY <1>6, FileOfTree
  <2>2. Into(e.path, target) \in Paths /\ Into(e.path, target) # <<>>
    BY <1>2, <2>1, IntoPath
  <2> HIDE DEF left, target
  <2>3. FsRecord(rr) /\ rr.at = "copy-open" /\ HeldBy(t, rr.from)
    BY <1>3, <1>6, <2>2, CopyStarts
  <2> HIDE DEF rr
  <2> QED
    BY <1>0, <1>6, <2>3, GoesOnHere DEF rr
<1>7. CASE Continues(t, left) /\ UNCHANGED <<tree, data, spoiled>>
  <2>1. HeldBy(t, left.from)
    BY <1>3 DEF HeldBy
  <2> HIDE DEF left
  <2> QED
    BY <1>0, <1>3, <1>7, <2>1, GoesOnHere
<1>8. CASE EntryFails(t, e, left) /\ UNCHANGED <<tree, data, spoiled>>
  BY <1>0, <1>3, <1>8, FailedEntry
<1> QED
  <2> HIDE DEF target, S
  <2> QED
    BY <1>1, <1>5, <1>6, <1>7, <1>8 DEF target, S

LEMMA CopyTreeEndPlain ==
    ASSUME FsTyped, NEW t \in Threads, CopyTreeEnd(t)
    PROVE  IsPlain(t)
<1>0. FsRecord(thread[t]) /\ thread[t].at = "copytree"
  BY ThreadRecord DEF CopyTreeEnd
<1>1. CASE Refuses(t)
  BY <1>0, <1>1, RefusedEnds
<1>2. CASE ~Refuses(t)
  <2> DEFINE r == RemovesTree(t, thread[t].op.path)
  <2>1. Continues(t, r) /\ UNCHANGED <<tree, data, spoiled>>
    BY <1>2 DEF CopyTreeEnd
  <2>2. thread[t].op.path \in Paths
    BY <1>0, FsGiven DEF FsRecord
  <2>3. FsRecord(r) /\ r.at = "rmtree" /\ HeldBy(t, r.from)
    BY <1>0, <2>2, TreeToRemove
  <2> HIDE DEF r
  <2> QED
    BY <1>0, <2>1, <2>3, GoesOnHere
<1> QED
  BY <1>1, <1>2

-----------------------------------------------------------------------------
LEMMA CutBytes ==
    ASSUME NEW s \in Seq(Int), NEW m \in 1..Len(s) + 1, NEW n \in m - 1..Len(s)
    PROVE  /\ SubSeq(s, m, n) \in Seq(Int) /\ Len(SubSeq(s, m, n)) = n - m + 1
           /\ \A i \in 1..n - m + 1 : SubSeq(s, m, n)[i] = s[m + i - 1]
<1>1. Len(s) \in Nat
  OBVIOUS
<1> QED
  BY <1>1

LEMMA SameBytes ==
    ASSUME NEW a \in Seq(Int), NEW b \in Seq(Int), Len(a) = Len(b), \A n \in 1..Len(a) : a[n] = b[n]
    PROVE  a = b
<1>1. a = [n \in 1..Len(a) |-> a[n]] /\ b = [n \in 1..Len(b) |-> b[n]]
  OBVIOUS
<1>2. [n \in 1..Len(a) |-> a[n]] = [n \in 1..Len(a) |-> b[n]]
  OBVIOUS
<1> QED
  BY <1>1, <1>2

\* What is written over bytes are bytes, of this length and with these in them.
LEMMA OverBytes ==
    ASSUME NEW bytes \in Seq(Int), NEW offset \in Nat, NEW old \in Seq(Int)
    PROVE  /\ Over(bytes, offset, old) \in Seq(Int)
           /\ Len(old) <= offset =>
                /\ Len(Over(bytes, offset, old)) = offset + Len(bytes)
                /\ \A i \in offset + 1..offset + Len(bytes) :
                      Over(bytes, offset, old)[i] = bytes[i - offset]
                /\ \A i \in 1..Len(old) : Over(bytes, offset, old)[i] = old[i]
<1> DEFINE k == Len(bytes)
           m == Len(old)
           n == IF m > offset + k THEN m ELSE offset + k
           At(i) == CASE i > offset /\ i <= offset + k -> bytes[i - offset]
                      [] i <= offset /\ i > m -> 0
                      [] OTHER -> old[i]
<1>1. k \in Nat /\ m \in Nat
  OBVIOUS
<1>2. \A i \in 1..k : bytes[i] \in Int
  OBVIOUS
<1>3. \A i \in 1..m : old[i] \in Int
  OBVIOUS
<1>4. Over(bytes, offset, old) = [i \in 1..n |-> At(i)]
  BY DEF Over
<1> HIDE DEF k, m
<1>5. n \in Nat
  BY <1>1
<1>6. ASSUME NEW i \in 1..n
      PROVE  /\ At(i) \in Int
             /\ i > offset /\ i <= offset + k => At(i) = bytes[i - offset]
             /\ i <= m /\ m <= offset => At(i) = old[i]
  <2>1. CASE i > offset /\ i <= offset + k
    <3>1. i - offset \in 1..k
      BY <1>1, <2>1
    <3>2. At(i) = bytes[i - offset]
      BY <2>1
    <3>3. ~(i <= m /\ m <= offset)
      BY <1>1, <2>1
    <3> QED
      BY <1>2, <3>1, <3>2, <3>3
  <2>2. CASE ~(i > offset /\ i <= offset + k) /\ i <= offset /\ i > m
    <3>1. At(i) = 0
      BY <2>2
    <3>2. At(i) \in Int /\ ~(i <= m)
      BY <1>1, <1>5, <2>2, <3>1
    <3> QED
      BY <2>2, <3>2
  <2>3. CASE ~(i > offset /\ i <= offset + k) /\ ~(i <= offset /\ i > m)
    <3>1. i \in 1..m
      BY <1>1, <1>5, <2>3
    <3>2. At(i) = old[i]
      BY <2>3
    <3> QED
      BY <1>3, <2>3, <3>1, <3>2
  <2> QED
    BY <2>1, <2>2, <2>3
<1> HIDE DEF At
<1> DEFINE f == [i \in 1..n |-> At(i)]
<1>7. f \in Seq(Int) /\ Len(f) = n
  <2> HIDE DEF n
  <2> QED
    BY <1>5, <1>6
<1>8. \A i \in 1..n : f[i] = At(i)
  OBVIOUS
<1>9. m <= offset => n = offset + k
  BY <1>1
<1> HIDE DEF f, n
<1>10. ASSUME m <= offset
       PROVE  /\ Len(f) = offset + k
              /\ \A i \in offset + 1..offset + k : f[i] = bytes[i - offset]
              /\ \A i \in 1..m : f[i] = old[i]
  <2>1. \A i \in offset + 1..offset + k : i \in 1..n /\ i > offset /\ i <= offset + k
    BY <1>1, <1>9, <1>10
  <2>2. \A i \in 1..m : i \in 1..n /\ i <= m
    BY <1>1, <1>9, <1>10
  <2> QED
    BY <1>6, <1>7, <1>8, <1>9, <1>10, <2>1, <2>2
<1> QED
  BY <1>4, <1>7, <1>10 DEF f, k, m

LEMMA OverNothing ==
    ASSUME NEW bytes \in Seq(Int)
    PROVE  Over(bytes, 0, <<>>) = bytes
<1> DEFINE o == Over(bytes, 0, <<>>)
           e == <<>>
           zero == 0
<1>1. e \in Seq(Int) /\ Len(e) <= zero /\ Len(bytes) \in Nat /\ zero \in Nat
  OBVIOUS
<1>2. o \in Seq(Int) /\ Len(o) = 0 + Len(bytes)
      /\ \A i \in 0 + 1..0 + Len(bytes) : o[i] = bytes[i - 0]
  <2> HIDE DEF e, zero
  <2>1. LET x == Over(bytes, zero, e) IN
        /\ x \in Seq(Int) /\ Len(x) = zero + Len(bytes)
        /\ \A i \in zero + 1..zero + Len(bytes) : x[i] = bytes[i - zero]
    BY <1>1, OverBytes, Zenon
  <2> QED
    BY <2>1 DEF e, zero
<1> HIDE DEF o
<1>3. Len(o) = Len(bytes) /\ \A i \in 1..Len(o) : o[i] = bytes[i]
  <2> DEFINE k == Len(bytes)
  <2>1. k \in Nat
    BY <1>1
  <2> HIDE DEF k
  <2>2. Len(o) = k /\ \A i \in 1..k : i - 0 = i
    BY <1>2, <2>1 DEF k
  <2> QED
    BY <1>2, <2>1, <2>2 DEF k
<1> QED
  BY <1>2, <1>3, SameBytes DEF o

\* A piece that is written where the first ones end continues them.
LEMMA OverPiece ==
    ASSUME NEW s \in Seq(Int), NEW offset \in 0..Len(s), NEW end \in offset + 1..Len(s)
    PROVE  Over(SubSeq(s, offset + 1, end), offset, SubSeq(s, 1, offset)) = SubSeq(s, 1, end)
<1> DEFINE m == Len(s)
           a == SubSeq(s, offset + 1, end)
           b == SubSeq(s, 1, offset)
           c == SubSeq(s, 1, end)
           o == Over(a, offset, b)
<1>1. m \in Nat /\ offset \in 0..m /\ end \in offset + 1..m
  OBVIOUS
<1>2. a \in Seq(Int) /\ Len(a) = end - (offset + 1) + 1
      /\ \A i \in 1..end - (offset + 1) + 1 : a[i] = s[offset + 1 + i - 1]
  <2>1. offset + 1 \in 1..m + 1 /\ end \in offset + 1 - 1..m
    BY <1>1
  <2> QED
    BY <2>1, CutBytes
<1>3. b \in Seq(Int) /\ Len(b) = offset - 1 + 1 /\ \A i \in 1..offset - 1 + 1 : b[i] = s[1 + i - 1]
  <2>1. 1 \in 1..m + 1 /\ offset \in 1 - 1..m
    BY <1>1
  <2> QED
    BY <2>1, CutBytes
<1>4. c \in Seq(Int) /\ Len(c) = end - 1 + 1 /\ \A i \in 1..end - 1 + 1 : c[i] = s[1 + i - 1]
  <2>1. 1 \in 1..m + 1 /\ end \in 1 - 1..m
    BY <1>1
  <2> QED
    BY <2>1, CutBytes
<1> HIDE DEF m, a, b, c
<1>5. Len(b) = offset /\ Len(a) = end - offset /\ Len(c) = end /\ offset \in Nat
  BY <1>1, <1>2, <1>3, <1>4
<1>6. /\ o \in Seq(Int) /\ Len(o) = offset + Len(a)
      /\ \A i \in offset + 1..offset + Len(a) : o[i] = a[i - offset]
      /\ \A i \in 1..Len(b) : o[i] = b[i]
  <2>1. Len(b) <= offset
    BY <1>5
  <2>2. a \in Seq(Int) /\ b \in Seq(Int) /\ offset \in Nat
    BY <1>2, <1>3, <1>5
  <2> QED
    BY <2>1, <2>2, OverBytes, Zenon
<1> HIDE DEF o
<1>7. ASSUME NEW i \in 1..end
      PROVE  o[i] = c[i]
  <2>1. c[i] = s[i]
    <3>1. i \in 1..end - 1 + 1 /\ 1 + i - 1 = i
      BY <1>1
    <3> QED
      BY <1>4, <3>1
  <2>2. CASE i <= offset
    <3>1. i \in 1..offset - 1 + 1 /\ 1 + i - 1 = i /\ i \in 1..offset
      BY <1>1, <2>2
    <3> QED
      BY <1>3, <1>5, <1>6, <2>1, <3>1
  <2>3. CASE i > offset
    <3>1. /\ i \in offset + 1..offset + (end - offset)
          /\ i - offset \in 1..end - (offset + 1) + 1 /\ offset + 1 + (i - offset) - 1 = i
      BY <1>1, <2>3
    <3>2. o[i] = a[i - offset]
      BY <1>5, <1>6, <3>1
    <3>3. a[i - offset] = s[offset + 1 + (i - offset) - 1]
      BY <1>2, <3>1
    <3> QED
      BY <2>1, <3>1, <3>2, <3>3
  <2> QED
    BY <1>1, <2>2, <2>3
<1>8. Len(o) = end
  BY <1>1, <1>5, <1>6
<1>9. o = c
  BY <1>4, <1>5, <1>6, <1>7, <1>8, SameBytes
<1> QED
  BY <1>9 DEF o, a, b, c

-----------------------------------------------------------------------------
\* The file a path opens is there, or is a new one.
LEMMA OpenedFile ==
    ASSUME FsTyped, NEW p \in Paths, p # <<>>,
           Writable(p), Room(p)
    PROVE  /\ Opened(p) \in Files
           /\ IsFile(p) => Opened(p) = tree[p]
           /\ ~IsFile(p) => Opened(p) \notin InUse
           /\ \A q \in DOMAIN tree : tree[q] = Opened(p) => q = p
           /\ TreeOf([q \in DOMAIN tree \cup {p} |-> IF q \in {p} THEN Opened(p) ELSE tree[q]])
<1> DEFINE f == Opened(p)
<1>0. Dir \notin Files /\ TreeOf(tree)
  BY FsGiven DEF FsTyped
<1>1. DirIn(tree, Parent(p)) /\ ~DirIn(tree, p)
  BY DEF Writable, IsDir, Exists, DirIn
<1>2. CASE IsFile(p)
  <2>1. f = tree[p] /\ p \in DOMAIN tree /\ tree[p] # Dir
    BY <1>2 DEF Opened, IsFile, Exists
  <2>2. f \in Files
    BY <2>1 DEF FsTyped, TreeOf
  <2>3. \A q \in DOMAIN tree : tree[q] = f => q = p
    <3> HIDE DEF f
    <3> QED
      BY <2>1 DEF FsTyped, TreeOf
  <2> HIDE DEF f
  <2>4. TreeOf([q \in DOMAIN tree \cup {p} |-> IF q \in {p} THEN f ELSE tree[q]])
    BY <1>0, <1>1, <2>2, <2>3, PlacedFile
  <2> QED
    BY <1>2, <2>1, <2>2, <2>3, <2>4, Zenon DEF f
<1>3. CASE ~IsFile(p)
  <2>1. \E g \in Files : g \notin InUse
    BY <1>3 DEF Room
  <2>2. f = CHOOSE g \in Files : g \notin InUse
    BY <1>3 DEF Opened
  <2>3. f \in Files /\ f \notin InUse
    <3> HIDE DEF f
    <3> QED
      BY <2>1, <2>2
  <2>4. \A q \in DOMAIN tree : tree[q] = f => q = p
    BY <2>3 DEF InUse
  <2> HIDE DEF f
  <2>5. TreeOf([q \in DOMAIN tree \cup {p} |-> IF q \in {p} THEN f ELSE tree[q]])
    BY <1>0, <1>1, <2>3, <2>4, PlacedFile
  <2> QED
    BY <1>3, <2>3, <2>4, <2>5, Zenon DEF f
<1> QED
  BY <1>2, <1>3

\* The files that a copy is half way into are files.
LEMMA HalfFiles ==
    ASSUME FsTyped, NEW f
    PROVE  HalfCopied(f) \subseteq Files
<1>1. ASSUME NEW u \in Threads, thread[u].offset > 0
      PROVE  thread[u].into \in Files
  <2>1. FsRecord(thread[u])
    BY ThreadRecord
  <2>2. thread[u].at = "copy-data"
    BY <1>1, <2>1 DEF FsRecord
  <2> QED
    BY <2>1, <2>2 DEF FsRecord
<1> QED
  BY <1>1 DEF HalfCopied

\* What opening a file for writing does to each part.
OpenStep(t, p, f, r) ==
    /\ thread[t].into = Nothing /\ FsRecord(thread[t])
    /\ TreeOf(tree') /\ Place({p}, f)
    /\ data' = [data EXCEPT ![f] = <<>>]
    /\ spoiled' = HalfCopied(f) \cup IF Writers(f) = {} THEN spoiled \ {f} ELSE spoiled \cup {f}
    /\ Continues(t, r) /\ FsRecord(r)
    /\ r.at # "idle" /\ r.from = thread[t].from /\ r.into = f /\ r.offset = 0

LEMMA OpenParts ==
    ASSUME FsTyped, NEW t \in Threads, NEW p, NEW next \in {"decode", "copy-data"},
           \/ thread[t].at = "write" /\ p = thread[t].to /\ next = "decode"
           \/ thread[t].at = "copy-open" /\ p = thread[t].dest /\ next = "copy-data",
           OpenForWriting(t, p, next)
    PROVE  \E f \in Files : \E r : OpenStep(t, p, f, r)
<1> DEFINE f == Opened(p)
           r == [thread[t] EXCEPT !.at = next, !.into = f, !.touched = TRUE]
<1>1. FsRecord(thread[t]) /\ thread[t].into = Nothing
  BY NotWriting
<1>2. p \in Paths /\ p # <<>>
  BY <1>1 DEF FsRecord
<1>3. Writable(p) /\ Room(p) /\ Place({p}, f) /\ Continues(t, r)
  BY DEF OpenForWriting
<1>4. /\ data' = [data EXCEPT ![f] = <<>>]
      /\ spoiled' = HalfCopied(f) \cup IF Writers(f) = {} THEN spoiled \ {f} ELSE spoiled \cup {f}
  BY DEF OpenForWriting
<1>5. f \in Files
  BY <1>2, <1>3, OpenedFile
<1>6. TreeOf(tree')
  <2>1. tree' = [q \in DOMAIN tree \cup {p} |-> IF q \in {p} THEN f ELSE tree[q]]
    BY <1>3 DEF Place
  <2>2. TreeOf([q \in DOMAIN tree \cup {p} |-> IF q \in {p} THEN f ELSE tree[q]])
    BY <1>2, <1>3, OpenedFile
  <2> QED
    BY <2>1, <2>2
<1> HIDE DEF f
<1>7. f # Nothing
  BY <1>5, FsGiven
<1>8. FsRecord(r) /\ r.at = next /\ r.from = thread[t].from /\ r.into = f /\ r.offset = 0
  BY <1>1, <1>5, <1>7 DEF FsRecord, Ats
<1> HIDE DEF r
<1>9. OpenStep(t, p, f, r)
  BY <1>1, <1>3, <1>4, <1>6, <1>8 DEF OpenStep
<1> QED
  BY <1>5, <1>9

LEMMA OpensParts ==
    ASSUME FsTyped, NEW t \in Threads, Opens(t)
    PROVE  \E f \in Files : \E p, r : OpenStep(t, p, f, r)
<1>1. CASE thread[t].at = "write" /\ OpenForWriting(t, thread[t].to, "decode")
  BY <1>1, OpenParts
<1>2. CASE thread[t].at = "copy-open" /\ OpenForWriting(t, thread[t].dest, "copy-data")
  BY <1>2, OpenParts
<1> QED
  BY <1>1, <1>2 DEF Opens

\* What a thread holds that writes or copies.
LEMMA WritesFile ==
    ASSUME FsTyped, NEW t \in Threads, thread[t].at \in {"decode", "copy-data"}
    PROVE  /\ FsRecord(thread[t])
           /\ thread[t].into \in Files /\ data[thread[t].into] \in Seq(Int)
           /\ thread[t].at = "decode" =>
                /\ thread[t].op.kind = "write" /\ thread[t].op \in Ops
                /\ (thread[t].op.content = Bad \/ thread[t].op.content \in Seq(Int))
           /\ thread[t].at = "copy-data" =>
                thread[t].from \in Files /\ data[thread[t].from] \in Seq(Int)
           /\ thread[t].offset \in Nat
<1>1. FsRecord(thread[t])
  BY ThreadRecord
<1>2. thread[t].into \in Files /\ thread[t].offset \in Nat
      /\ (thread[t].at = "copy-data" => thread[t].from \in Files)
  BY <1>1 DEF FsRecord
<1>3. data[thread[t].into] \in Seq(Int)
      /\ (thread[t].at = "copy-data" => data[thread[t].from] \in Seq(Int))
  BY <1>2 DEF FsTyped
<1>4. thread[t].at = "decode" =>
        /\ thread[t].op.kind = "write" /\ thread[t].op \in Ops
        /\ (thread[t].op.content = Bad \/ thread[t].op.content \in Seq(Int))
  BY <1>1, FsGiven DEF FsRecord
<1> QED
  BY <1>1, <1>2, <1>3, <1>4

LEMMA SelfRecord ==
    ASSUME NEW r, FsRecord(r)
    PROVE  LET self == [r EXCEPT !.refused = TRUE] IN
           /\ FsRecord(self) /\ self.at = r.at /\ self.op = r.op /\ self.into = r.into
           /\ self.from = r.from /\ self.todo = r.todo /\ self.then = r.then
BY DEF FsRecord

LEMMA WriteCloses ==
    ASSUME FsTyped, NEW t \in Threads, WriteContent(t)
    PROVE  IsClose(t)
<1> DEFINE f == thread[t].into
           content == thread[t].op.content
<1>1. /\ thread[t].at = "decode"
      /\ \/ /\ content = Bad
            /\ spoiled' = spoiled \cup {f}
            /\ Answers(t, Error)
            /\ UNCHANGED <<tree, data>>
         \/ /\ content # Bad
            /\ data' = [data EXCEPT ![f] = Over(content, 0, data[f])]
            /\ spoiled' = IF Writers(f) = {t} THEN spoiled ELSE spoiled \cup {f}
            /\ Answers(t, Ok)
            /\ UNCHANGED tree
  BY DEF WriteContent
<1>2. f \in Files /\ data[f] \in Seq(Int) /\ (content = Bad \/ content \in Seq(Int))
  BY <1>1, WritesFile
<1>3. data \in [Files -> Seq(Int)]
  BY DEF FsTyped
<1>4. \A a : Answers(t, a) => Continues(t, Idle(a))
  BY DEF Answers, Continues
<1>5. \A a : FsRecord(Idle(a)) /\ Idle(a).into = Nothing /\ Idle(a).from = Nothing
  BY IdleRecord
<1>6. thread[t].into = f
  OBVIOUS
<1>7. thread[t].op.content = content
  OBVIOUS
<1> HIDE DEF f, content
<1>8. CASE content = Bad
  <2>1. data' = [data EXCEPT ![f] = data[f]]
    BY <1>1, <1>3, <1>8
  <2>2. Closes(t, f, data[f], Idle(Error))
    BY <1>1, <1>2, <1>4, <1>5, <1>6, <1>8, <2>1 DEF Closes
  <2> QED
    BY <1>2, <2>2 DEF IsClose
<1>9. CASE content # Bad
  <2> DEFINE bytes == Over(content, 0, data[f])
  <2>1. bytes \in Seq(Int)
    BY <1>2, <1>9, OverBytes
  <2>2. data' = [data EXCEPT ![f] = bytes] /\ Answers(t, Ok) /\ UNCHANGED tree
        /\ spoiled' \in {spoiled, spoiled \cup {f}}
    BY <1>1, <1>9
  <2>3. f \notin spoiled' => AllWritten(t, f, bytes)
    BY <1>1, <1>2, <1>7, <1>9, <2>2 DEF AllWritten
  <2> HIDE DEF bytes
  <2>4. Closes(t, f, bytes, Idle(Ok))
    BY <1>1, <1>4, <1>5, <1>6, <2>1, <2>2, <2>3 DEF Closes
  <2> QED
    BY <1>2, <2>4 DEF IsClose
<1> QED
  BY <1>8, <1>9

LEMMA CopyEndCloses ==
    ASSUME FsTyped, NEW t \in Threads, CopyEnd(t)
    PROVE  IsClose(t)
<1> DEFINE f == thread[t].into
           r == [thread[t] EXCEPT !.at = "copy-stat", !.from = Nothing, !.into = Nothing,
                                  !.offset = 0]
<1>1. /\ thread[t].at = "copy-data" /\ Continues(t, r) /\ UNCHANGED <<tree, data>>
      /\ spoiled' = IF CopiesAlone(t) THEN spoiled ELSE spoiled \cup {f}
      /\ thread[t].offset >= Len(data[thread[t].from])
  BY DEF CopyEnd, SpoilsUnless
<1>2. f \in Files /\ data[f] \in Seq(Int) /\ FsRecord(thread[t])
  BY <1>1, WritesFile
<1>3. FsRecord(r) /\ r.into = Nothing /\ r.from = Nothing
  BY <1>1, <1>2 DEF FsRecord, Ats
<1>4. data' = [data EXCEPT ![f] = data[f]]
  <2>1. data \in [Files -> Seq(Int)]
    BY DEF FsTyped
  <2> HIDE DEF f
  <2> QED
    BY <1>1, <1>2, <2>1
<1>5. thread[t].into = f
  OBVIOUS
<1> HIDE DEF f, r
<1>6. spoiled' \in {spoiled, spoiled \cup {f}}
  BY <1>1
<1>7. f \notin spoiled' => AllWritten(t, f, data[f])
  BY <1>1 DEF AllWritten
<1>8. Closes(t, f, data[f], r)
  BY <1>1, <1>2, <1>3, <1>4, <1>5, <1>6, <1>7 DEF Closes
<1> QED
  BY <1>2, <1>8 DEF IsClose

\* What a refused call is.
LEMMA CallFailsIs ==
    ASSUME FsTyped, NEW t \in Threads, CallFails(t)
    PROVE  IsPlain(t) \/ IsClose(t)
<1> DEFINE self == [thread[t] EXCEPT !.refused = TRUE]
           content == self.op.content
<1>1. FsRecord(thread[t])
  BY ThreadRecord
<1>2. /\ FsRecord(self) /\ self.at = thread[t].at /\ self.op = thread[t].op
      /\ self.into = thread[t].into /\ self.todo = thread[t].todo
  BY <1>1, SelfRecord
<1>3. mishaps' = mishaps + 1 /\ mishaps \in Nat
  <2>1. mishaps' = mishaps + 1
    BY Zenon DEF CallFails
  <2>2. mishaps \in 0..MaxMishaps
    BY DEF FsTyped
  <2> QED
    BY <2>1, <2>2, FsGiven
<1>4. mishaps' # mishaps
  BY <1>3
<1>5. \/ /\ self.at \in {"write", "read", "reading", "create-directory", "read-directory",
                         "stat", "remove", "rmtree", "copy"}
         /\ Refuses(t)
      \/ /\ self.at = "decode" /\ content # Bad
         /\ \E n \in 0..Len(content) :
               data' = [data EXCEPT ![self.into] = Over(SubSeq(content, 1, n), 0, @)]
         /\ spoiled' = spoiled \cup {self.into}
         /\ Answers(t, Error)
         /\ UNCHANGED tree
      \/ /\ self.at \in {"copy-open", "copy-stat"}
         /\ CopyFails(t, self)
         /\ UNCHANGED <<tree, data, spoiled>>
      \/ /\ self.at = "copy-data"
         /\ spoiled' = spoiled \cup {self.into}
         /\ CopyFails(t, self)
         /\ UNCHANGED <<tree, data>>
      \/ self.at = "renaming" /\ ByHand(t, self)
      \/ /\ self.at = "copytree"
         /\ \E e \in self.todo : EntryFails(t, e, [self EXCEPT !.todo = @ \ {e}])
         /\ UNCHANGED <<tree, data, spoiled>>
  BY DEF CallFails
<1>6. content = thread[t].op.content
  BY <1>2
<1> HIDE DEF self, content
<1>7. CASE /\ self.at \in {"write", "read", "reading", "create-directory", "read-directory",
                           "stat", "remove", "rmtree", "copy"}
           /\ Refuses(t)
  BY <1>2, <1>7, RefusedEnds
<1>8. CASE /\ self.at = "decode" /\ content # Bad
           /\ \E n \in 0..Len(content) :
                 data' = [data EXCEPT ![self.into] = Over(SubSeq(content, 1, n), 0, @)]
           /\ spoiled' = spoiled \cup {self.into}
           /\ Answers(t, Error)
           /\ UNCHANGED tree
  <2> DEFINE f == self.into
  <2>1. f \in Files /\ data[f] \in Seq(Int) /\ content \in Seq(Int)
    BY <1>2, <1>6, <1>8, WritesFile
  <2>2. PICK n \in 0..Len(content) :
           data' = [data EXCEPT ![f] = Over(SubSeq(content, 1, n), 0, data[f])]
    BY <1>8
  <2> DEFINE bytes == Over(SubSeq(content, 1, n), 0, data[f])
             r == Idle(Error)
  <2>3. bytes \in Seq(Int)
    <3>1. SubSeq(content, 1, n) \in Seq(Int)
      <4>1. 1 \in 1..Len(content) + 1 /\ n \in 1 - 1..Len(content)
        BY <2>1
      <4> QED
        BY <2>1, <4>1, CutBytes
    <3> QED
      BY <2>1, <3>1, OverBytes
  <2>4. Continues(t, r) /\ FsRecord(r) /\ r.into = Nothing /\ r.from = Nothing
    BY <1>8, IdleRecord DEF Answers, Continues
  <2>5. data' = [data EXCEPT ![f] = bytes] /\ thread[t].into = f
        /\ spoiled' = spoiled \cup {f}
    BY <1>2, <1>8, <2>2
  <2> HIDE DEF bytes, r, f
  <2>6. Closes(t, f, bytes, r)
    BY <1>2, <1>4, <1>8, <2>3, <2>4, <2>5 DEF Closes
  <2> QED
    BY <2>1, <2>6 DEF IsClose
<1>9. CASE /\ self.at \in {"copy-open", "copy-stat"}
           /\ CopyFails(t, self)
           /\ UNCHANGED <<tree, data, spoiled>>
  BY <1>2, <1>9, FailedHere
<1>10. CASE /\ self.at = "copy-data"
            /\ spoiled' = spoiled \cup {self.into}
            /\ CopyFails(t, self)
            /\ UNCHANGED <<tree, data>>
  <2> DEFINE f == self.into
  <2>1. f \in Files /\ data[f] \in Seq(Int)
    BY <1>2, <1>10, WritesFile
  <2>2. PICK r : Continues(t, r) /\ FsRecord(r) /\ r.from = Nothing /\ r.into = Nothing
    BY <1>2, <1>10, FailedCopy
  <2>3. data' = [data EXCEPT ![f] = data[f]]
    <3>1. data \in [Files -> Seq(Int)]
      BY DEF FsTyped
    <3> HIDE DEF f
    <3> QED
      BY <1>10, <2>1, <3>1
  <2>4. spoiled' = spoiled \cup {f} /\ thread[t].into = f
    BY <1>2, <1>10
  <2> HIDE DEF f
  <2>5. Closes(t, f, data[f], r)
    BY <1>10, <2>1, <2>2, <2>3, <2>4 DEF Closes
  <2> QED
    BY <2>1, <2>5 DEF IsClose
<1>11. CASE self.at = "renaming" /\ ByHand(t, self)
  BY <1>2, <1>11, ByHandPlain
<1>12. CASE /\ self.at = "copytree"
            /\ \E e \in self.todo : EntryFails(t, e, [self EXCEPT !.todo = @ \ {e}])
            /\ UNCHANGED <<tree, data, spoiled>>
  <2>1. PICK e \in self.todo : EntryFails(t, e, [self EXCEPT !.todo = @ \ {e}])
    BY <1>12
  <2> DEFINE left == [self EXCEPT !.todo = @ \ {e}]
  <2>2. FsRecord(left) /\ left.at = "copytree"
    BY <1>2, <1>12 DEF FsRecord
  <2> HIDE DEF left
  <2> QED
    BY <1>2, <1>12, <2>1, <2>2, FailedEntry DEF left
<1> QED
  BY <1>5, <1>7, <1>8, <1>9, <1>10, <1>11, <1>12

-----------------------------------------------------------------------------
\* What a copied piece does to each part.
LEMMA PieceParts ==
    ASSUME FsTyped, NEW t \in Threads, CopyPiece(t)
    PROVE  \E f \in Files, g \in Files, end \in Nat, bytes \in Seq(Int) : \E r :
              /\ thread[t].at = "copy-data" /\ thread[t].into = f /\ thread[t].from = g
              /\ thread[t].offset \in Nat /\ end \in thread[t].offset + 1..Len(data[g])
              /\ bytes = Over(SubSeq(data[g], thread[t].offset + 1, end), thread[t].offset, data[f])
              /\ data' = [data EXCEPT ![f] = bytes]
              /\ Continues(t, r) /\ FsRecord(r)
              /\ r.at = "copy-data" /\ r.into = f /\ r.from = g /\ r.offset = end
              /\ spoiled' \in {spoiled, spoiled \cup {f}}
              /\ f \notin spoiled' => f \notin spoiled /\ CopiesAlone(t)
              /\ UNCHANGED tree
<1> DEFINE f == thread[t].into
           g == thread[t].from
           offset == thread[t].offset
<1>1. thread[t].at = "copy-data" /\ UNCHANGED tree
      /\ spoiled' = IF CopiesAlone(t) THEN spoiled ELSE spoiled \cup {f}
  BY DEF CopyPiece, SpoilsUnless
<1>2. /\ f \in Files /\ g \in Files /\ data[f] \in Seq(Int) /\ data[g] \in Seq(Int)
      /\ FsRecord(thread[t]) /\ offset \in Nat
  BY <1>1, WritesFile
<1>3. PICK end \in offset + 1..Len(data[g]) :
         /\ data' = [data EXCEPT ![f] = Over(SubSeq(data[g], offset + 1, end), offset, data[f])]
         /\ Continues(t, [thread[t] EXCEPT !.offset = end])
  BY DEF CopyPiece
<1> DEFINE r == [thread[t] EXCEPT !.offset = end]
           bytes == Over(SubSeq(data[g], offset + 1, end), offset, data[f])
<1>4. end \in Nat /\ Len(data[g]) \in Nat
  BY <1>2, <1>3
<1>5. FsRecord(r) /\ r.at = "copy-data" /\ r.into = f /\ r.from = g /\ r.offset = end
  BY <1>1, <1>2, <1>4 DEF FsRecord
<1> HIDE DEF f, g, offset, r
<1>6. bytes \in Seq(Int)
  <2>1. SubSeq(data[g], offset + 1, end) \in Seq(Int)
    <3> DEFINE m == Len(data[g])
    <3>1. end \in offset + 1..m /\ m \in Nat /\ offset \in Nat
      BY <1>2, <1>3, <1>4
    <3> HIDE DEF m
    <3>2. offset + 1 \in 1..m + 1 /\ end \in offset + 1 - 1..m
      BY <3>1
    <3> QED
      BY <1>2, <3>2, CutBytes DEF m
  <2> QED
    BY <1>2, <2>1, OverBytes
<1>7. data' = [data EXCEPT ![f] = bytes] /\ Continues(t, r)
  BY <1>3 DEF r
<1>8. bytes = Over(SubSeq(data[g], offset + 1, end), offset, data[f])
  OBVIOUS
<1> HIDE DEF bytes
<1>9. spoiled' \in {spoiled, spoiled \cup {f}} /\ (f \notin spoiled' => f \notin spoiled /\ CopiesAlone(t))
  BY <1>1
<1> DEFINE Parts(ff, gg, ee, bb, rr) ==
              /\ thread[t].at = "copy-data" /\ thread[t].into = ff /\ thread[t].from = gg
              /\ thread[t].offset \in Nat /\ ee \in thread[t].offset + 1..Len(data[gg])
              /\ bb = Over(SubSeq(data[gg], thread[t].offset + 1, ee), thread[t].offset, data[ff])
              /\ data' = [data EXCEPT ![ff] = bb]
              /\ Continues(t, rr) /\ FsRecord(rr)
              /\ rr.at = "copy-data" /\ rr.into = ff /\ rr.from = gg /\ rr.offset = ee
              /\ spoiled' \in {spoiled, spoiled \cup {ff}}
              /\ ff \notin spoiled' => ff \notin spoiled /\ CopiesAlone(t)
              /\ UNCHANGED tree
<1>10. Parts(f, g, end, bytes, r)
  BY <1>1, <1>2, <1>3, <1>5, <1>7, <1>8, <1>9 DEF f, g, offset
<1> HIDE DEF Parts
<1>11. \E ff \in Files, gg \in Files, ee \in Nat, bb \in Seq(Int) : \E rr : Parts(ff, gg, ee, bb, rr)
  BY <1>2, <1>4, <1>6, <1>10
<1> QED
  BY <1>11 DEF Parts

\* Every call, also one that is refused, is of one of these classes.
LEMMA StepIs ==
    ASSUME FsTyped, NEW t \in Threads, SystemCall(t) \/ CallFails(t)
    PROVE  IsPlain(t) \/ Opens(t) \/ CopyPiece(t) \/ IsClose(t)
<1>1. CASE WriteOpen(t)
  BY <1>1, RefusedEnds DEF WriteOpen, Opens
<1>2. CASE CopyOpen(t)
  <2>1. thread[t].at = "copy-open"
    BY <1>2 DEF CopyOpen
  <2>2. CASE OpenForWriting(t, thread[t].dest, "copy-data")
    BY <2>1, <2>2 DEF Opens
  <2>3. CASE CopyFails(t, thread[t]) /\ UNCHANGED <<tree, data, spoiled>>
    BY <2>1, <2>3, ThreadRecord, FailedHere
  <2> QED
    BY <1>2, <2>2, <2>3 DEF CopyOpen
<1>3. CASE MoveByHand(t)
  <2>1. thread[t].at = "renaming" /\ ByHand(t, thread[t])
    BY <1>3 DEF MoveByHand
  <2> QED
    BY <2>1, ThreadRecord, ByHandPlain
<1>4. CASE CallFails(t)
  BY <1>4, CallFailsIs
<1>5. CASE WriteContent(t) \/ CopyEnd(t)
  BY <1>5, WriteCloses, CopyEndCloses
<1>6. CASE /\ SystemCall(t)
           /\ ~(WriteOpen(t) \/ CopyOpen(t) \/ MoveByHand(t) \/ WriteContent(t) \/ CopyEnd(t))
  BY <1>6, ReadPlain, CreateDirectoryPlain, RemovePlain, RemoveTreePlain, CopyTestPlain,
     CopyStatPlain, RenamePlain, CopyTreePlain, CopyTreeEndPlain DEF SystemCall
<1> QED
  BY <1>1, <1>2, <1>3, <1>4, <1>5, <1>6

\* What a call of t does to the bounds, the bytes and what t is doing.
LEMMA CallKeeps ==
    ASSUME FsTyped, NEW t \in Threads, SystemCall(t) \/ CallFails(t)
    PROVE  /\ mishaps' \in 0..MaxMishaps
           /\ \E r : Continues(t, r) /\ FsRecord(r)
           /\ TreeOf(tree') /\ data' \in [Files -> Seq(Int)] /\ spoiled' \subseteq Files
<1>0. data \in [Files -> Seq(Int)] /\ spoiled \subseteq Files
  BY DEF FsTyped
<1>1. mishaps' \in 0..MaxMishaps
  <2>1. mishaps' = mishaps \/ (mishaps < MaxMishaps /\ mishaps' = mishaps + 1)
    BY Zenon DEF SystemCall, CallFails
  <2>2. mishaps \in 0..MaxMishaps /\ MaxMishaps \in Nat
    BY FsGiven DEF FsTyped
  <2> QED
    BY <2>1, <2>2
<1>2. CASE IsPlain(t)
  BY <1>0, <1>1, <1>2 DEF IsPlain, PlainStep, KeepsValues
<1>3. CASE Opens(t)
  <2>1. PICK f, p, r : f \in Files /\ OpenStep(t, p, f, r)
    BY <1>3, OpensParts
  <2> f \in Files
    BY <2>1
  <2>2. /\ TreeOf(tree') /\ data' = [data EXCEPT ![f] = <<>>]
        /\ spoiled' = HalfCopied(f) \cup IF Writers(f) = {} THEN spoiled \ {f}
                                         ELSE spoiled \cup {f}
        /\ Continues(t, r) /\ FsRecord(r)
    BY <2>1 DEF OpenStep
  <2>3. spoiled' \subseteq Files
    BY <1>0, <2>2, HalfFiles
  <2>4. data' \in [Files -> Seq(Int)]
    BY <1>0, <2>2
  <2> QED
    BY <1>1, <2>2, <2>3, <2>4
<1>4. CASE CopyPiece(t)
  <2>1. PICK f, bytes, r :
          /\ f \in Files /\ bytes \in Seq(Int)
          /\ data' = [data EXCEPT ![f] = bytes]
          /\ Continues(t, r) /\ FsRecord(r)
          /\ spoiled' \in {spoiled, spoiled \cup {f}}
          /\ UNCHANGED tree
    BY <1>4, PieceParts
  <2> QED
    BY <1>0, <1>1, <2>1, SameTree
<1>5. CASE IsClose(t)
  <2>1. PICK f, bytes, r : f \in Files /\ Closes(t, f, bytes, r)
    BY <1>5 DEF IsClose
  <2> QED
    BY <1>0, <1>1, <2>1, SameTree DEF Closes
<1> QED
  BY <1>2, <1>3, <1>4, <1>5, StepIs

LEMMA CallTyped ==
    ASSUME FsTyped, NEW t \in Threads, SystemCall(t) \/ CallFails(t)
    PROVE  FsTyped'
<1>1. PICK r : Continues(t, r) /\ FsRecord(r)
  BY CallKeeps
<1>2. FsThreads'
  BY <1>1, OneKeeps DEF Continues, FsTyped
<1>3. ops' \in 0..MaxOps
  BY <1>1 DEF Continues, FsTyped
<1> QED
  BY <1>2, <1>3, CallKeeps, TypedParts

\* Beginning a command changes only what threads are doing.
LEMMA BeginIs ==
    ASSUME FsTyped, NEW t \in Threads, Begin(t)
    PROVE  /\ DOMAIN thread' = Threads
           /\ \A u \in Threads : u # t =>
                /\ FsRecord(thread'[u])
                /\ thread'[u].at = thread[u].at /\ thread'[u].into = thread[u].into
                /\ thread'[u].from = thread[u].from /\ thread'[u].offset = thread[u].offset
           /\ FsRecord(thread'[t]) /\ thread'[t].into = Nothing /\ thread'[t].from = Nothing
           /\ thread'[t].at # "idle"
           /\ thread[t].at = "idle" /\ thread[t].into = Nothing
           /\ UNCHANGED <<tree, data, spoiled, mishaps>>
<1>1. PICK o \in Ops : thread' = [u \in Threads |->
              IF u = t
              THEN [Idle(Nothing) EXCEPT
                       !.at = o.kind, !.op = o, !.to = o.path,
                       !.before = IF \E v \in Threads : Busy(v) THEN Nothing ELSE View]
              ELSE [thread[u] EXCEPT !.before = Nothing]]
  BY DEF Begin
<1> DEFINE b == IF \E v \in Threads : Busy(v) THEN Nothing ELSE View
           r == [Idle(Nothing) EXCEPT !.at = o.kind, !.op = o, !.to = o.path, !.before = b]
<1> HIDE DEF b
<1>2. FsRecord(r) /\ r.into = Nothing /\ r.from = Nothing /\ r.at # "idle"
  BY FsGiven DEF FsRecord, Idle, Ats, Paths
<1>3. ASSUME NEW u \in Threads
      PROVE  LET ru == [thread[u] EXCEPT !.before = Nothing] IN
             /\ FsRecord(ru) /\ ru.at = thread[u].at /\ ru.into = thread[u].into
             /\ ru.from = thread[u].from /\ ru.offset = thread[u].offset
  BY DEF FsTyped, FsThreads, FsRecord
<1>4. DOMAIN thread' = Threads
      /\ \A u \in Threads : thread'[u] = IF u = t THEN r ELSE [thread[u] EXCEPT !.before = Nothing]
  BY <1>1 DEF b
<1>5. thread[t].at = "idle" /\ thread[t].into = Nothing /\ UNCHANGED <<tree, data, spoiled, mishaps>>
  BY NotWriting DEF Begin, Busy
<1> HIDE DEF r
<1> QED
  BY <1>2, <1>3, <1>4, <1>5

LEMMA BeginTyped ==
    ASSUME FsTyped, NEW t \in Threads, Begin(t)
    PROVE  FsTyped'
<1>1. DOMAIN thread' = Threads /\ \A u \in Threads : FsRecord(thread'[u])
  BY BeginIs
<1>2. FsThreads'
  BY <1>1 DEF FsThreads, FsRecord
<1>3. ops' \in 0..MaxOps
  <2>1. MaxOps \in Nat /\ ops \in 0..MaxOps /\ ops < MaxOps /\ ops' = ops + 1
    BY FsGiven DEF FsTyped, Begin
  <2> QED
    BY <2>1
<1>4. UNCHANGED <<tree, data, spoiled, mishaps>>
  BY BeginIs
<1>5. /\ TreeOf(tree') /\ data' \in [Files -> Seq(Int)] /\ spoiled' \subseteq Files
      /\ mishaps' \in 0..MaxMishaps
  BY <1>4, SameTree DEF FsTyped
<1> QED
  BY <1>2, <1>3, <1>5, TypedParts

LEMMA CrashTyped ==
    ASSUME FsTyped, Crash
    PROVE  FsTyped'
<1>1. FsThreads'
  BY IdleRecord DEF Crash, FsThreads, FsRecord
<1>2. spoiled' \subseteq Files
  BY DEF Crash, FsTyped, FsThreads, FsRecord
<1>3. mishaps' \in 0..MaxMishaps
  <2>1. MaxMishaps \in Nat /\ mishaps \in 0..MaxMishaps /\ mishaps < MaxMishaps
        /\ mishaps' = mishaps + 1
    BY FsGiven DEF FsTyped, Crash
  <2> QED
    BY <2>1
<1>4. TreeOf(tree') /\ data' \in [Files -> Seq(Int)] /\ ops' \in 0..MaxOps
  BY SameTree DEF Crash, FsTyped
<1> QED
  BY <1>1, <1>2, <1>3, <1>4, TypedParts

LEMMA FsTypedStep ==
    ASSUME FsTyped, [FSNext]_fsVars
    PROVE  FsTyped'
<1>1. CASE UNCHANGED fsVars
  <2>1. FsThreads'
    BY <1>1 DEF fsVars, FsTyped, FsThreads, FsRecord
  <2> QED
    BY <1>1, <2>1, SameTree, TypedParts DEF fsVars, FsTyped
<1>2. CASE \E t \in Threads : Begin(t)
  BY <1>2, BeginTyped
<1>3. CASE \E t \in Threads : SystemCall(t) \/ CallFails(t)
  BY <1>3, CallTyped
<1>4. CASE Crash
  BY <1>4, CrashTyped
<1> QED
  BY <1>1, <1>2, <1>3, <1>4 DEF FSNext

LEMMA FsTypedType ==
    ASSUME FsTyped
    PROVE  FSTypeOK
<1>1. \A p \in DOMAIN tree : tree[p] \in Files \cup {Dir} /\ IsDir(Parent(p)) /\ p # <<>>
  BY DEF FsTyped, TreeOf, DirIn, IsDir, Exists
<1>2. \A p, q \in DOMAIN tree : tree[p] = tree[q] /\ tree[p] # Dir => p = q
  BY DEF FsTyped, TreeOf
<1>3. \A t \in Threads :
          /\ thread[t].op \in Ops \cup {Nothing}
          /\ Busy(t) <=> thread[t].op # Nothing
          /\ thread[t].at \in {"decode", "copy-data"} <=> thread[t].into # Nothing
          /\ thread[t].at \in {"reading", "copy-open", "copy-data"} <=> thread[t].from # Nothing
          /\ thread[t].offset \in Nat
          /\ thread[t].offset > 0 => thread[t].at = "copy-data"
  BY DEF FsTyped, FsThreads, FsRecord, Busy
<1> QED
  BY <1>1, <1>2, <1>3 DEF FSTypeOK, FsTyped

\* Whatever the commands of the threads do to the tree, whatever call the
\* system refuses and wherever the process is killed between two of their
\* calls, what is above a path stays a directory, no file has two paths, and a
\* thread that writes or copies has its files (fs_handlers.py:9-171).
THEOREM FsTypeCorrect == FSSpec => []FSTypeOK
<1>1. FSInit => FsTyped
  BY FsTypedInit
<1>2. FsTyped /\ [FSNext]_fsVars => FsTyped'
  BY FsTypedStep
<1>3. FsTyped => FSTypeOK
  BY FsTypedType
<1> QED
  BY <1>1, <1>2, <1>3, PTL DEF FSSpec

-----------------------------------------------------------------------------
\* The command of a thread is answered by a step of that thread.
LEMMA OneStepOf ==
    ASSUME FsTyped, NEW t \in Threads, SystemCall(t) \/ CallFails(t)
    PROVE  \A u \in Threads : u # t => thread'[u] = thread[u]
BY CallKeeps, OneGoes DEF FsTyped, Continues

LEMMA ErrorStep ==
    ASSUME FsTyped, NEW t \in Threads, SystemCall(t) \/ CallFails(t),
           thread'[t].at = "idle", thread'[t].answer = Error
    PROVE  /\ UNCHANGED tree
           /\ UNCHANGED data \/ (thread[t].at = "decode" /\ mishaps' # mishaps)
<1>1. ASSUME NEW r, Continues(t, r)
      PROVE  r.at = "idle" /\ r.answer = Error
  <2>1. r = thread'[t]
    BY <1>1, OneGoes DEF Continues, FsTyped
  <2> QED
    BY <2>1
<1>2. CASE IsPlain(t)
  BY <1>1, <1>2 DEF IsPlain, PlainStep, KeepsValues
<1>3. CASE Opens(t)
  <2>1. PICK f, p, r : f \in Files /\ OpenStep(t, p, f, r)
    BY <1>3, OpensParts
  <2> QED
    BY <1>1, <2>1 DEF OpenStep
<1>4. CASE CopyPiece(t)
  <2>1. PICK r : Continues(t, r) /\ r.at = "copy-data"
    BY <1>4, PieceParts
  <2> QED
    BY <1>1, <2>1
<1>5. CASE IsClose(t)
  <2>1. PICK f, bytes, r : f \in Files /\ Closes(t, f, bytes, r)
    BY <1>5 DEF IsClose
  <2>2. r.answer = Error /\ UNCHANGED tree
    BY <1>1, <2>1 DEF Closes
  <2>3. r # Idle(Ok)
    BY <2>2, OkIsNoError, IdleRecord
  <2>4. CASE bytes = data[f]
    <3>1. data' = [data EXCEPT ![f] = data[f]] /\ data \in [Files -> Seq(Int)]
      BY <2>1, <2>4 DEF Closes, FsTyped
    <3>2. UNCHANGED data
      BY <3>1
    <3> QED
      BY <2>2, <3>2
  <2>5. CASE bytes # data[f]
    BY <2>1, <2>2, <2>3, <2>5 DEF Closes
  <2> QED
    BY <2>4, <2>5
<1> QED
  BY <1>2, <1>3, <1>4, <1>5, StepIs

LEMMA CleanStep ==
    ASSUME FsTyped, [FSNext]_fsVars, NEW t \in Threads,
           Answering(t), thread'[t].answer = Error
    PROVE  /\ View' = View \/ (thread[t].at = "decode" /\ mishaps' # mishaps)
           /\ \/ ~thread[t].touched
              \/ thread[t].at \in {"decode", "copy-data", "copy-stat", "rmtree"}
              \/ thread[t].op.kind = "rename"
<1>1. thread[t].at # "idle" /\ thread'[t].at = "idle" /\ thread'[t].answer # Nothing
  BY DEF Answering, Busy
<1>2. ~Crash /\ ~UNCHANGED fsVars
  <2>1. CASE Crash
    BY <1>1, <2>1, IdleRecord DEF Crash
  <2> QED
    BY <1>1, <2>1 DEF fsVars
<1>3. ASSUME NEW u \in Threads, Begin(u)
      PROVE  FALSE
  <2>1. t # u => thread'[t].at = thread[t].at
    BY <1>3, BeginIs
  <2>2. thread'[u].at # "idle"
    BY <1>3, BeginIs
  <2> QED
    BY <1>1, <2>1, <2>2
<1>4. PICK u \in Threads : SystemCall(u) \/ CallFails(u)
  BY <1>2, <1>3 DEF FSNext
<1>5. u = t
  BY <1>1, <1>4, OneStepOf
<1>6. /\ UNCHANGED tree
      /\ UNCHANGED data \/ (thread[t].at = "decode" /\ mishaps' # mishaps)
  BY <1>1, <1>4, <1>5, ErrorStep
<1>7. View' = View \/ (thread[t].at = "decode" /\ mishaps' # mishaps)
  BY <1>6 DEF View
<1>8. FsRecord(thread[t])
  BY ThreadRecord
<1> QED
  BY <1>7, <1>8 DEF FsRecord

\* However the commands of the threads overlap, whatever call the system
\* refuses and whenever the process is killed, a command that is answered with
\* an error leaves the disk as the step before had it, but for a write whose
\* data the system did not take to the end, and has changed nothing itself but
\* as such a write or one that could not decode, a copy that stopped in its
\* data or could not copy the times (fs_handlers.py:19-22), a tree that could
\* not be removed to the end, or a move by hand.
THEOREM FsErrorsAreClean == FSSpec => ErrorsAreClean
<1>1. FSInit => FsTyped
  BY FsTypedInit
<1>2. FsTyped /\ [FSNext]_fsVars => FsTyped'
  BY FsTypedStep
<1>3. FsTyped /\ [FSNext]_fsVars =>
        [\A t \in Threads : Answering(t) /\ thread'[t].answer = Error =>
          /\ View' = View \/ (thread[t].at = "decode" /\ mishaps' # mishaps)
          /\ \/ ~thread[t].touched
             \/ thread[t].at \in {"decode", "copy-data", "copy-stat", "rmtree"}
             \/ thread[t].op.kind = "rename"]_fsVars
  BY CleanStep
<1> QED
  BY <1>1, <1>2, <1>3, PTL DEF FSSpec, ErrorsAreClean

-----------------------------------------------------------------------------
\* A file nobody writes to holds what some write was given.  One that a single
\* thread writes to holds nothing yet, or the first of the bytes of the file it
\* is a copy of, which nobody writes to.  This is of every file in use, also of
\* one that has no path any more and is still being copied.
HalfWhole(r) ==
    IF r.offset = 0 THEN data[r.into] = <<>>
    ELSE /\ r.offset <= Len(data[r.from]) /\ data[r.into] = SubSeq(data[r.from], 1, r.offset)
         /\ r.from \notin spoiled /\ Writers(r.from) = {}

FileWhole(f) == f \in InUse /\ f \notin spoiled /\ Writers(f) = {} => data[f] \in Whole

CopyWhole(u) ==
    thread[u].into # Nothing /\ thread[u].into \notin spoiled =>
        Writers(thread[u].into) = {u} /\ HalfWhole(thread[u])

WholeInv == (\A f \in Files : FileWhole(f)) /\ (\A u \in Threads : CopyWhole(u))

LEMMA WholeAgain ==
    ASSUME \A f \in Files : FileWhole(f)', \A u \in Threads : CopyWhole(u)'
    PROVE  WholeInv'
BY DEF WholeInv

LEMMA SameWhole ==
    Whole' = Whole
BY DEF Whole

\* A step that opens no file for writing and writes none.
LEMMA WholeKept ==
    ASSUME FsTyped, WholeInv,
           \A p \in DOMAIN tree' : tree'[p] = Dir \/ \E q \in DOMAIN tree : tree'[p] = tree[q],
           UNCHANGED <<data, spoiled>>, DOMAIN thread' = Threads,
           \A u \in Threads : /\ thread'[u].into = thread[u].into
                              /\ thread'[u].from = Nothing \/ thread'[u].from \in InUse
                              /\ thread[u].into # Nothing => /\ thread'[u].from = thread[u].from
                                                             /\ thread'[u].offset = thread[u].offset
    PROVE  WholeInv'
<1>1. \A f : Writers(f)' = Writers(f)
  BY DEF Writers
<1>2. ASSUME NEW f \in Files, f \in InUse'
      PROVE  f \in InUse
  <2>0. f # Dir /\ f # Nothing
    BY FsGiven
  <2>1. CASE \E p \in DOMAIN tree' : f = tree'[p]
    <3>1. PICK p \in DOMAIN tree' : f = tree'[p]
      BY <2>1
    <3>2. \E q \in DOMAIN tree : f = tree[q]
      BY <2>0, <3>1
    <3> QED
      BY <3>2 DEF InUse
  <2>2. CASE \E u \in Threads : f = thread'[u].from
    BY <2>0, <2>2
  <2>3. CASE \E u \in Threads : f = thread'[u].into
    BY <2>3 DEF InUse
  <2> QED
    BY <1>2, <2>1, <2>2, <2>3 DEF InUse
<1>3. ASSUME NEW f \in Files
      PROVE  FileWhole(f)'
  BY <1>1, <1>2, SameWhole DEF WholeInv, FileWhole
<1>4. ASSUME NEW u \in Threads
      PROVE  CopyWhole(u)'
  <2>1. CASE thread[u].into = Nothing
    BY <2>1 DEF CopyWhole
  <2>2. CASE thread[u].into # Nothing
    <3>1. CopyWhole(u)
      BY DEF WholeInv
    <3>2. thread'[u].into = thread[u].into /\ thread'[u].from = thread[u].from
          /\ thread'[u].offset = thread[u].offset
      BY <2>2
    <3> QED
      BY <1>1, <3>1, <3>2 DEF CopyWhole, HalfWhole
  <2> QED
    BY <2>1, <2>2
<1> QED
  BY <1>3, <1>4, WholeAgain

LEMMA PlainWhole ==
    ASSUME FsTyped, WholeInv, NEW t \in Threads, IsPlain(t)
    PROVE  WholeInv'
<1>1. PICK r : PlainStep(t, r)
  BY DEF IsPlain
<1>2. /\ DOMAIN thread' = Threads /\ thread'[t] = r
      /\ \A u \in Threads : u # t => thread'[u] = thread[u]
  BY <1>1, OneGoes DEF FsTyped, PlainStep, Continues
<1>3. r.into = Nothing /\ thread[t].into = Nothing /\ (r.from = Nothing \/ r.from \in InUse)
  BY <1>1 DEF PlainStep, HeldBy, InUse
<1>4. \A u \in Threads : thread[u].from \in InUse
  BY DEF InUse
<1>5. \A u \in Threads : /\ thread'[u].into = thread[u].into
                         /\ thread'[u].from = Nothing \/ thread'[u].from \in InUse
                         /\ thread[u].into # Nothing => /\ thread'[u].from = thread[u].from
                                                        /\ thread'[u].offset = thread[u].offset
  BY <1>2, <1>3, <1>4
<1>6. /\ \A p \in DOMAIN tree' : tree'[p] = Dir \/ \E q \in DOMAIN tree : tree'[p] = tree[q]
      /\ UNCHANGED <<data, spoiled>>
  BY <1>1 DEF PlainStep, KeepsValues
<1> QED
  BY <1>2, <1>5, <1>6, WholeKept

LEMMA BeginWhole ==
    ASSUME FsTyped, WholeInv, NEW t \in Threads, Begin(t)
    PROVE  WholeInv'
<1>1. \A u \in Threads : thread[u].from \in InUse
  BY DEF InUse
<1>2. \A u \in Threads : /\ thread'[u].into = thread[u].into
                         /\ thread'[u].from = Nothing \/ thread'[u].from \in InUse
                         /\ thread[u].into # Nothing => /\ thread'[u].from = thread[u].from
                                                        /\ thread'[u].offset = thread[u].offset
  BY <1>1, BeginIs
<1>3. DOMAIN thread' = Threads /\ UNCHANGED <<tree, data, spoiled>>
  BY BeginIs
<1> QED
  BY <1>2, <1>3, WholeKept

LEMMA CrashWhole ==
    ASSUME FsTyped, WholeInv, Crash
    PROVE  WholeInv'
<1>1. /\ spoiled' = spoiled \cup ({thread[t].into : t \in Threads} \ {Nothing})
      /\ thread' = [t \in Threads |-> Idle(Nothing)]
      /\ UNCHANGED <<tree, data>>
  BY DEF Crash
<1>2. \A t \in Threads : thread'[t].into = Nothing /\ thread'[t].from = Nothing
  BY <1>1, IdleRecord
<1>3. ASSUME NEW f \in Files, f \in InUse', f \notin spoiled'
      PROVE  data'[f] \in Whole
  <2>1. f # Nothing
    BY FsGiven
  <2>2. f \in InUse
    BY <1>1, <1>2, <1>3, <2>1 DEF InUse
  <2>3. Writers(f) = {} /\ f \notin spoiled
    BY <1>1, <1>3, <2>1 DEF Writers
  <2> QED
    BY <1>1, <2>2, <2>3 DEF WholeInv, FileWhole
<1>4. \A f \in Files : FileWhole(f)'
  BY <1>3, SameWhole DEF FileWhole
<1>5. \A u \in Threads : CopyWhole(u)'
  BY <1>2 DEF CopyWhole
<1> QED
  BY <1>4, <1>5, WholeAgain

\* A step of t that changes the bytes of f alone, and spoils f or files that
\* are written to, leaves what the invariant says of the others, if none of
\* them goes on as a copy of f.
LEMMA OthersKept ==
    ASSUME FsTyped, WholeInv, NEW f \in Files, NEW t \in Threads,
           thread[t].into \in {f, Nothing}, thread'[t].into \in {f, Nothing},
           \A u \in Threads : u # t => thread'[u] = thread[u],
           \A g \in Files : g \in InUse' /\ g # f => g \in InUse,
           NEW bytes, data' = [data EXCEPT ![f] = bytes],
           spoiled \subseteq spoiled' \cup {f},
           spoiled' \subseteq spoiled \cup {f} \cup {thread[u].into : u \in Threads},
           Writers(f) = {} =>
              \A u \in Threads : thread[u].from = f /\ thread[u].offset > 0 =>
                                    thread[u].into \in spoiled'
    PROVE  /\ \A g \in Files : g # f => FileWhole(g)'
           /\ \A u \in Threads : thread'[u].into # f => CopyWhole(u)'
<1>1. f # Nothing /\ Nothing \notin Files
  BY FsGiven
<1>2. \A g : g \notin {Nothing, f} => Writers(g)' = Writers(g)
  BY DEF Writers
<1>3. \A g \in Files : g # f => data'[g] = data[g]
  BY DEF FsTyped
<1>4. ASSUME NEW g \in Files, g # f
      PROVE  FileWhole(g)'
  <2>1. FileWhole(g) /\ g # Nothing
    BY <1>1 DEF WholeInv
  <2> QED
    BY <1>2, <1>3, <1>4, <2>1, SameWhole DEF FileWhole
<1>5. ASSUME NEW u \in Threads, thread'[u].into \notin {f, Nothing}, thread'[u].into \notin spoiled'
      PROVE  Writers(thread[u].into)' = {u} /\ HalfWhole(thread[u])'
  <2>0. PICK h, g : h = thread[u].into /\ g = thread[u].from
    OBVIOUS
  <2>1. thread'[u] = thread[u]
    BY <1>5
  <2>2. FsRecord(thread[u]) /\ h \in Files /\ h # f /\ h # Nothing /\ h \notin spoiled
    <3>1. FsRecord(thread[u])
      BY ThreadRecord
    <3>2. h \in Files
      BY <1>5, <2>0, <2>1, <3>1 DEF FsRecord
    <3> QED
      BY <1>5, <2>0, <2>1, <3>1, <3>2
  <2>3. Writers(h) = {u} /\ HalfWhole(thread[u])
    BY <2>0, <2>2 DEF WholeInv, CopyWhole
  <2>4. Writers(h)' = {u} /\ data'[h] = data[h]
    <3>1. Writers(h)' = Writers(h)
      BY <1>2, <2>2
    <3> QED
      BY <1>3, <2>2, <2>3, <3>1
  <2>5. CASE thread[u].offset = 0
    BY <2>0, <2>1, <2>3, <2>4, <2>5 DEF HalfWhole, Writers
  <2>6. CASE thread[u].offset # 0
    <3>1. g \in Files /\ thread[u].offset > 0
      BY <2>0, <2>2, <2>6 DEF FsRecord
    <3>2. /\ thread[u].offset <= Len(data[g]) /\ data[h] = SubSeq(data[g], 1, thread[u].offset)
          /\ g \notin spoiled /\ Writers(g) = {}
      BY <2>0, <2>3, <2>6 DEF HalfWhole
    <3>3. g # f
      <4>1. thread[u].into \notin spoiled'
        BY <1>5, <2>1
      <4> QED
        BY <2>0, <3>1, <3>2, <4>1
    <3>4. g \notin spoiled'
      <4>1. g \notin {thread[v].into : v \in Threads}
        BY <3>2 DEF Writers
      <4> QED
        BY <3>2, <3>3, <4>1
    <3>5. data'[g] = data[g] /\ Writers(g)' = {}
      BY <1>1, <1>2, <1>3, <3>1, <3>2, <3>3
    <3>6. /\ thread[u].offset <= Len(data'[g]) /\ data'[h] = SubSeq(data'[g], 1, thread[u].offset)
          /\ g \notin spoiled' /\ Writers(g)' = {}
      BY <2>4, <3>2, <3>4, <3>5
    <3> QED
      BY <2>0, <2>1, <2>4, <2>6, <3>6 DEF HalfWhole, Writers
  <2> QED
    BY <2>0, <2>1, <2>4, <2>5, <2>6 DEF Writers
<1>6. \A u \in Threads : thread'[u].into # f => CopyWhole(u)'
  BY <1>5 DEF CopyWhole, Writers
<1> QED
  BY <1>4, <1>6

LEMMA UseKept ==
    ASSUME FsTyped, NEW f \in Files, NEW t \in Threads,
           \A u \in Threads : u # t => thread'[u] = thread[u],
           thread'[t].from \in {Nothing, thread[t].from}, thread'[t].into \in {f, Nothing},
           \A q \in DOMAIN tree' : tree'[q] = f \/ \E p \in DOMAIN tree : tree'[q] = tree[p]
    PROVE  \A g \in Files : g \in InUse' /\ g # f => g \in InUse
<1>1. ASSUME NEW g \in Files, g \in InUse', g # f
      PROVE  g \in InUse
  <2>0. g # Nothing
    BY FsGiven
  <2>1. CASE \E q \in DOMAIN tree' : g = tree'[q]
    <3>1. \E p \in DOMAIN tree : g = tree[p]
      BY <1>1, <2>1
    <3> QED
      BY <3>1 DEF InUse
  <2>2. CASE \E u \in Threads : g = thread'[u].from
    <3>1. \E u \in Threads : g = thread[u].from
      BY <2>0, <2>2
    <3> QED
      BY <3>1 DEF InUse
  <2>3. CASE \E u \in Threads : g = thread'[u].into
    <3>1. \E u \in Threads : g = thread[u].into
      BY <1>1, <2>0, <2>3
    <3> QED
      BY <3>1 DEF InUse
  <2> QED
    BY <1>1, <2>1, <2>2, <2>3 DEF InUse
<1> QED
  BY <1>1

\* What the invariant needs of f when t's step is one OthersKept speaks of.
LEMMA BothWhole ==
    ASSUME NEW f \in Files,
           \A g \in Files : g # f => FileWhole(g)',
           \A u \in Threads : thread'[u].into # f => CopyWhole(u)',
           FileWhole(f)', \A u \in Threads : thread'[u].into = f => CopyWhole(u)'
    PROVE  WholeInv'
BY WholeAgain

LEMMA OpenWhole ==
    ASSUME FsTyped, WholeInv, NEW t \in Threads, Opens(t)
    PROVE  WholeInv'
<1>1. PICK f, p, r : f \in Files /\ OpenStep(t, p, f, r)
  BY OpensParts
<1> f \in Files
  BY <1>1
<1>2. /\ thread[t].into = Nothing /\ Place({p}, f)
      /\ data' = [data EXCEPT ![f] = <<>>]
      /\ spoiled' = HalfCopied(f) \cup IF Writers(f) = {} THEN spoiled \ {f} ELSE spoiled \cup {f}
      /\ Continues(t, r) /\ FsRecord(r)
      /\ r.from = thread[t].from /\ r.into = f /\ r.offset = 0
  BY <1>1 DEF OpenStep
<1>3. /\ DOMAIN thread' = Threads /\ thread'[t] = r
      /\ \A u \in Threads : u # t => thread'[u] = thread[u]
  BY <1>2, OneGoes DEF FsTyped, Continues
<1>4. \A g \in Files : g \in InUse' /\ g # f => g \in InUse
  <2>1. \A q \in DOMAIN tree' : tree'[q] = f \/ \E x \in DOMAIN tree : tree'[q] = tree[x]
    BY <1>2 DEF Place
  <2>2. thread'[t].from \in {Nothing, thread[t].from} /\ thread'[t].into \in {f, Nothing}
    BY <1>2, <1>3
  <2> QED
    BY <1>3, <2>1, <2>2, UseKept
<1>5. /\ spoiled \subseteq spoiled' \cup {f}
      /\ spoiled' \subseteq spoiled \cup {f} \cup {thread[u].into : u \in Threads}
      /\ \A u \in Threads : thread[u].from = f /\ thread[u].offset > 0 =>
                               thread[u].into \in spoiled'
  BY <1>2 DEF HalfCopied
<1>6. /\ \A g \in Files : g # f => FileWhole(g)'
      /\ \A u \in Threads : thread'[u].into # f => CopyWhole(u)'
  <2>1. thread[t].into \in {f, Nothing} /\ thread'[t].into \in {f, Nothing}
    BY <1>2, <1>3
  <2>2. data' = [data EXCEPT ![f] = <<>>]
    BY <1>2
  <2> QED
    BY <1>3, <1>4, <1>5, <2>1, <2>2, OthersKept
<1>7. Writers(f)' = Writers(f) \cup {t}
  BY <1>2, <1>3 DEF Writers
<1>8. FileWhole(f)'
  BY <1>7 DEF FileWhole
<1>9. ASSUME NEW u \in Threads, thread'[u].into = f
      PROVE  CopyWhole(u)'
  <2>1. CASE f \in spoiled'
    BY <1>9, <2>1 DEF CopyWhole
  <2>2. CASE f \notin spoiled'
    <3>1. Writers(f) = {}
      BY <1>2, <2>2
    <3>2. u = t
      BY <1>3, <1>9, <3>1 DEF Writers
    <3>3. Writers(f)' = {t}
      BY <1>7, <3>1
    <3>4. data'[f] = <<>>
      BY <1>2 DEF FsTyped
    <3>5. thread'[t].into = f /\ thread'[t].offset = 0
      BY <1>2, <1>3
    <3> QED
      BY <3>2, <3>3, <3>4, <3>5 DEF CopyWhole, HalfWhole, Writers
  <2> QED
    BY <2>1, <2>2
<1> QED
  BY <1>6, <1>8, <1>9, BothWhole

\* Of a file that is written or copied to the end, all is there.
LEMMA AllIsWhole ==
    ASSUME FsTyped, WholeInv, NEW t \in Threads, NEW f \in Files, thread[t].into = f,
           NEW bytes, AllWritten(t, f, bytes)
    PROVE  bytes \in Whole
<1>1. f # Nothing /\ f \notin spoiled
  BY FsGiven DEF AllWritten
<1>2. HalfWhole(thread[t])
  BY <1>1 DEF WholeInv, CopyWhole
<1>3. CASE /\ thread[t].at = "decode" /\ thread[t].op.content \in Seq(Int)
           /\ bytes = Over(thread[t].op.content, 0, data[f])
  <2>1. FsRecord(thread[t]) /\ thread[t].op \in Ops /\ thread[t].op.kind = "write"
    BY <1>3, WritesFile
  <2>2. thread[t].offset = 0
    BY <1>3, <2>1 DEF FsRecord
  <2>3. data[f] = <<>>
    BY <1>2, <2>2 DEF HalfWhole
  <2>4. bytes = thread[t].op.content
    BY <1>3, <2>3, OverNothing
  <2> QED
    BY <2>1, <2>4 DEF Whole
<1>4. CASE /\ thread[t].at = "copy-data" /\ CopiesAlone(t) /\ bytes = data[f]
           /\ thread[t].offset >= Len(data[thread[t].from])
  <2>1. PICK g \in Files : g = thread[t].from
    BY <1>4, WritesFile
  <2>2. g \notin spoiled /\ Writers(g) = {}
    BY <1>4, <2>1 DEF CopiesAlone
  <2>3. data[g] \in Whole
    BY <2>1, <2>2 DEF WholeInv, FileWhole, InUse
  <2>4. data[g] \in Seq(Int) /\ thread[t].offset \in Nat /\ thread[t].offset >= Len(data[g])
    BY <1>4, <2>1, WritesFile
  <2>5. data[f] = data[g]
    <3>1. CASE thread[t].offset = 0
      <4>1. data[f] = <<>>
        BY <1>2, <3>1 DEF HalfWhole
      <4>2. data[g] = <<>>
        BY <2>4, <3>1
      <4> QED
        BY <4>1, <4>2
    <3>2. CASE thread[t].offset # 0
      <4>1. thread[t].offset <= Len(data[g]) /\ data[f] = SubSeq(data[g], 1, thread[t].offset)
        BY <1>2, <2>1, <3>2 DEF HalfWhole
      <4>2. thread[t].offset = Len(data[g])
        BY <2>4, <4>1
      <4>3. SubSeq(data[g], 1, Len(data[g])) = data[g]
        BY <2>4
      <4> QED
        BY <4>1, <4>2, <4>3
    <3> QED
      BY <3>1, <3>2
  <2> QED
    BY <1>4, <2>3, <2>5
<1> QED
  BY <1>3, <1>4 DEF AllWritten

LEMMA CloseWhole ==
    ASSUME FsTyped, WholeInv, NEW t \in Threads, IsClose(t)
    PROVE  WholeInv'
<1>1. PICK f, bytes, r : f \in Files /\ Closes(t, f, bytes, r)
  BY DEF IsClose
<1> f \in Files
  BY <1>1
<1>2. /\ thread[t].into = f /\ Continues(t, r)
      /\ r.into = Nothing /\ r.from = Nothing
      /\ data' = [data EXCEPT ![f] = bytes]
      /\ spoiled' \in {spoiled, spoiled \cup {f}}
      /\ f \notin spoiled' => AllWritten(t, f, bytes)
      /\ UNCHANGED tree
  BY <1>1 DEF Closes
<1>3. /\ DOMAIN thread' = Threads /\ thread'[t] = r
      /\ \A u \in Threads : u # t => thread'[u] = thread[u]
  BY <1>2, OneGoes DEF FsTyped, Continues
<1>4. f # Nothing
  BY FsGiven
<1>5. \A g \in Files : g \in InUse' /\ g # f => g \in InUse
  <2>1. thread'[t].from \in {Nothing, thread[t].from} /\ thread'[t].into \in {f, Nothing}
    BY <1>2, <1>3
  <2>2. \A q \in DOMAIN tree' : tree'[q] = f \/ \E x \in DOMAIN tree : tree'[q] = tree[x]
    BY <1>2
  <2> QED
    BY <1>3, <2>1, <2>2, UseKept
<1>6. /\ \A g \in Files : g # f => FileWhole(g)'
      /\ \A u \in Threads : thread'[u].into # f => CopyWhole(u)'
  <2>1. thread[t].into \in {f, Nothing} /\ thread'[t].into \in {f, Nothing}
    BY <1>2, <1>3
  <2>2. data' = [data EXCEPT ![f] = bytes] /\ spoiled \subseteq spoiled' \cup {f}
        /\ spoiled' \subseteq spoiled \cup {f} \cup {thread[u].into : u \in Threads}
    BY <1>2
  <2>3. Writers(f) # {}
    BY <1>2 DEF Writers
  <2> QED
    BY <1>3, <1>5, <2>1, <2>2, <2>3, OthersKept
<1>7. FileWhole(f)'
  <2>1. data'[f] = bytes
    BY <1>2 DEF FsTyped
  <2>2. f \notin spoiled' => bytes \in Whole
    BY <1>2, AllIsWhole
  <2> QED
    BY <2>1, <2>2, SameWhole DEF FileWhole
<1>8. ASSUME NEW u \in Threads, thread'[u].into = f
      PROVE  CopyWhole(u)'
  <2>1. CASE f \in spoiled'
    BY <1>8, <2>1 DEF CopyWhole
  <2>2. CASE f \notin spoiled'
    <3>1. u # t /\ thread[u].into = f /\ f \notin spoiled
      BY <1>2, <1>3, <1>4, <1>8, <2>2
    <3>2. Writers(f) = {u} /\ Writers(f) = {t}
      BY <1>2, <1>4, <3>1 DEF WholeInv, CopyWhole
    <3> QED
      BY <3>1, <3>2
  <2> QED
    BY <2>1, <2>2
<1> QED
  BY <1>6, <1>7, <1>8, BothWhole

LEMMA PieceWhole ==
    ASSUME FsTyped, WholeInv, NEW t \in Threads, CopyPiece(t)
    PROVE  WholeInv'
<1>1. PICK f, g, end, bytes, r :
         /\ f \in Files /\ g \in Files /\ end \in Nat /\ bytes \in Seq(Int)
         /\ thread[t].at = "copy-data" /\ thread[t].into = f /\ thread[t].from = g
         /\ thread[t].offset \in Nat /\ end \in thread[t].offset + 1..Len(data[g])
         /\ bytes = Over(SubSeq(data[g], thread[t].offset + 1, end), thread[t].offset, data[f])
         /\ data' = [data EXCEPT ![f] = bytes]
         /\ Continues(t, r) /\ FsRecord(r)
         /\ r.at = "copy-data" /\ r.into = f /\ r.from = g /\ r.offset = end
         /\ spoiled' \in {spoiled, spoiled \cup {f}}
         /\ f \notin spoiled' => f \notin spoiled /\ CopiesAlone(t)
         /\ UNCHANGED tree
  BY PieceParts
<1> f \in Files /\ g \in Files /\ end \in Nat /\ bytes \in Seq(Int)
  BY <1>1
<1>2. /\ DOMAIN thread' = Threads /\ thread'[t] = r
      /\ \A u \in Threads : u # t => thread'[u] = thread[u]
  BY <1>1, OneGoes DEF FsTyped, Continues
<1>3. f # Nothing /\ data[g] \in Seq(Int) /\ data[f] \in Seq(Int)
  BY FsGiven DEF FsTyped
<1>4. \A x \in Files : x \in InUse' /\ x # f => x \in InUse
  <2>1. thread'[t].from \in {Nothing, thread[t].from} /\ thread'[t].into \in {f, Nothing}
    BY <1>1, <1>2
  <2>2. \A q \in DOMAIN tree' : tree'[q] = f \/ \E x \in DOMAIN tree : tree'[q] = tree[x]
    BY <1>1
  <2> QED
    BY <1>2, <2>1, <2>2, UseKept
<1>5. /\ \A x \in Files : x # f => FileWhole(x)'
      /\ \A u \in Threads : thread'[u].into # f => CopyWhole(u)'
  <2>1. thread[t].into \in {f, Nothing} /\ thread'[t].into \in {f, Nothing}
    BY <1>1, <1>2
  <2>2. data' = [data EXCEPT ![f] = bytes] /\ spoiled \subseteq spoiled' \cup {f}
        /\ spoiled' \subseteq spoiled \cup {f} \cup {thread[u].into : u \in Threads}
    BY <1>1
  <2>3. Writers(f) # {}
    BY <1>1 DEF Writers
  <2> QED
    BY <1>2, <1>4, <2>1, <2>2, <2>3, OthersKept
<1>6. \A x : Writers(x)' = Writers(x)
  <2>1. \A u \in Threads : thread'[u].into = thread[u].into
    BY <1>1, <1>2
  <2> QED
    BY <2>1 DEF Writers
<1>7. FileWhole(f)'
  <2>1. Writers(f)' # {}
    BY <1>1, <1>2 DEF Writers
  <2> QED
    BY <2>1 DEF FileWhole
<1>8. ASSUME f \notin spoiled'
      PROVE  CopyWhole(t)' /\ Writers(f) = {t}
  <2>1. spoiled' = spoiled /\ f \notin spoiled
        /\ Writers(f) = {t} /\ Writers(g) = {} /\ g \notin spoiled
    BY <1>1, <1>8 DEF CopiesAlone
  <2>2. f # g
    BY <2>1
  <2>3. HalfWhole(thread[t])
    BY <1>1, <1>3, <2>1 DEF WholeInv, CopyWhole
  <2> DEFINE offset == thread[t].offset
  <2>4. data[f] = SubSeq(data[g], 1, offset)
    <3>1. CASE offset = 0
      <4>1. data[f] = <<>>
        BY <1>1, <2>3, <3>1 DEF HalfWhole
      <4>2. SubSeq(data[g], 1, 0) = <<>>
        BY <1>3
      <4> QED
        BY <3>1, <4>1, <4>2
    <3>2. CASE offset # 0
      BY <1>1, <2>3, <3>2 DEF HalfWhole
    <3> QED
      BY <3>1, <3>2
  <2>5. bytes = SubSeq(data[g], 1, end) /\ end <= Len(data[g]) /\ end # 0
    <3> DEFINE m == Len(data[g])
    <3>1. m \in Nat /\ offset \in Nat /\ end \in offset + 1..m
      BY <1>1, <1>3
    <3> HIDE DEF m, offset
    <3>2. offset \in 0..m /\ end <= m /\ end # 0
      BY <3>1
    <3>3. Over(SubSeq(data[g], offset + 1, end), offset, SubSeq(data[g], 1, offset))
            = SubSeq(data[g], 1, end)
      <4>1. offset \in 0..Len(data[g]) /\ end \in offset + 1..Len(data[g])
        BY <3>1, <3>2 DEF m
      <4> QED
        BY <1>3, <4>1, OverPiece
    <3>4. bytes = Over(SubSeq(data[g], offset + 1, end), offset, SubSeq(data[g], 1, offset))
      BY <1>1, <2>4 DEF offset
    <3> QED
      BY <3>2, <3>3, <3>4 DEF m
  <2>6. data'[f] = bytes /\ data'[g] = data[g]
    BY <1>1, <2>2 DEF FsTyped
  <2>7. thread'[t].into = f /\ thread'[t].from = g /\ thread'[t].offset = end
    BY <1>1, <1>2
  <2>8. Writers(f)' = {t} /\ Writers(g)' = {} /\ g \notin spoiled'
    BY <1>6, <2>1
  <2> HIDE DEF offset
  <2>9. HalfWhole(thread[t])'
    BY <2>5, <2>6, <2>7, <2>8 DEF HalfWhole, Writers
  <2> QED
    BY <2>1, <2>7, <2>8, <2>9 DEF CopyWhole, Writers
<1>9. ASSUME NEW u \in Threads, thread'[u].into = f
      PROVE  CopyWhole(u)'
  <2>1. CASE f \in spoiled'
    BY <1>9, <2>1 DEF CopyWhole
  <2>2. CASE f \notin spoiled'
    <3>1. u \in Writers(f)
      BY <1>6, <1>9 DEF Writers
    <3> QED
      BY <1>8, <2>2, <3>1
  <2> QED
    BY <2>1, <2>2
<1> QED
  BY <1>5, <1>7, <1>9, BothWhole

LEMMA WholeInit ==
    ASSUME FSInit
    PROVE  WholeInv
<1>1. \A t \in Threads : thread[t].into = Nothing
  BY IdleRecord DEF FSInit
<1>2. \A f \in Files : data[f] \in Whole
  BY DEF FSInit, Whole
<1> QED
  BY <1>1, <1>2 DEF WholeInv, FileWhole, CopyWhole

LEMMA WholeStep ==
    ASSUME FsTyped, WholeInv, [FSNext]_fsVars
    PROVE  WholeInv'
<1>1. CASE UNCHANGED fsVars
  BY <1>1 DEF fsVars, WholeInv, FileWhole, CopyWhole, HalfWhole, InUse, Writers, Whole
<1>2. CASE \E t \in Threads : Begin(t)
  BY <1>2, BeginWhole
<1>3. ASSUME NEW t \in Threads, SystemCall(t) \/ CallFails(t)
      PROVE  WholeInv'
  BY <1>3, StepIs, PlainWhole, OpenWhole, PieceWhole, CloseWhole
<1>4. CASE Crash
  BY <1>4, CrashWhole
<1> QED
  BY <1>1, <1>2, <1>3, <1>4 DEF FSNext

\* A file a path leads to holds what some write was given, all of it, unless
\* a thread writes to it, or a write or copy to it failed, was killed or
\* overlapped with another, or the file it copied was written meanwhile: no
\* move, copy or removal, by whatever threads and whatever call the system
\* refuses, makes a mixture of two files or leaves a part of one
\* (fs_handlers.py:19, 39, 81-82).
THEOREM FsFilesAreWhole == FSSpec => []FilesAreWhole
<1>1. FSInit => FsTyped /\ WholeInv
  BY FsTypedInit, WholeInit
<1>2. FsTyped /\ WholeInv /\ [FSNext]_fsVars => FsTyped' /\ WholeInv'
  BY FsTypedStep, WholeStep
<1>3. FsTyped /\ WholeInv => FilesAreWhole
  BY DEF FsTyped, TreeOf, WholeInv, FileWhole, FilesAreWhole, IsFile, Exists, InUse
<1> QED
  BY <1>1, <1>2, <1>3, PTL DEF FSSpec
=============================================================================
