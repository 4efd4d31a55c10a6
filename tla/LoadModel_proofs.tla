-------------------------- MODULE LoadModel_proofs --------------------------
(***************************************************************************)
(* Theorems about loading, for any texts, any number of files, however     *)
(* they import each other, and any number of contexts.                     *)
(***************************************************************************)
EXTENDS LoadModel, TLAPS

USE LoadModelAssumption DEF LoadModelAssumption

Places == {"parse", "import", "validate", "context"} \cup Ended

Work == [path : Paths, depth : 1..(Depth + 1)]

\* The next import, when there is one.
LEMMA NextImport ==
    ASSUME TypeOK, pending # <<>>
    PROVE  /\ Head(pending) \in Work
           /\ Tail(pending) \in Seq(Work)
           /\ Head(pending).path \in Paths
           /\ lib[Head(pending).path] \in AllShapes
           /\ lib[Head(pending).path].imports \in Seq(Paths)
<1>1. pending \in Seq(Work)
  BY DEF TypeOK, Work
<1>2. Head(pending) \in Work /\ Tail(pending) \in Seq(Work)
  BY <1>1
<1> QED
  BY <1>2 DEF TypeOK, Work, AllShapes

\* Imports that nest no deeper than one below the limit are work.
LEMMA NestedWork ==
    ASSUME NEW list \in Seq(Paths), NEW n \in 1..(Depth + 1)
    PROVE  Nested(list, n) \in Seq(Work)
<1>1. \A i \in 1..Len(list) : [path |-> list[i], depth |-> n] \in Work
  BY DEF Work
<1>2. Nested(list, n) = [i \in 1..Len(list) |-> [path |-> list[i], depth |-> n]]
  BY DEF Nested
<1>3. Len(list) \in Nat
  OBVIOUS
<1> QED
  BY <1>1, <1>2, <1>3

\* What the property's value may be.
Values == ValuesOf(Sources) \cup {NoSource, Conflict}

\* No set of values agrees on anything but one of them, or none, or is in
\* conflict.
LEMMA AgreedIs ==
    ASSUME NEW V
    PROVE  /\ V = {} => Agreed(V) = NoSource
           /\ \A v \in V : V = {v} => Agreed(V) = v
           /\ (V # {} /\ \A v \in V : V # {v}) => Agreed(V) = Conflict
           /\ Agreed(V) \in V \cup {NoSource, Conflict}
BY DEF Agreed

\* Adding a source's variable and inline values to a value gives a value.
LEMMA ValueType ==
    ASSUME NEW x \in Values, NEW s \in Sources, NEW S \in SUBSET Sources
    PROVE  WithVar(x, s) \in Values /\ WithInline(x, S) \in Values
<1>1. WithVar(x, s) \in Values
  BY DEF WithVar, Values, ValuesOf
<1>2. Inline(S) \subseteq Values
  BY DEF Inline, Values, ValuesOf
<1> DEFINE V == ({x} \ {NoSource}) \cup Inline(S)
<1>3. Agreed(V) \in V \cup {NoSource, Conflict}
  BY AgreedIs
<1>4. V \subseteq Values /\ NoSource \in Values /\ Conflict \in Values
  BY <1>2 DEF Values
<1> QED
  BY <1>1, <1>3, <1>4 DEF WithInline

\* The types hold at the beginning.
LEMMA TypeInit == Init => TypeOK
BY DEF Init, TypeOK, InputType, Sources, Ended

\* Every step keeps the types.
LEMMA TypeStep == TypeOK /\ [Next]_vars => TypeOK'
<1> SUFFICES ASSUME TypeOK, [Next]_vars PROVE TypeOK'
  OBVIOUS
<1> USE DEF input
<1>t. /\ own \in AllShapes /\ lib \in [Paths -> AllShapes] /\ ctx \in Seq(AllShapes)
      /\ pc \in Places /\ at \in 0..Len(ctx) /\ pending \in Seq(Work)
      /\ imports \in Seq(Paths) /\ allhttps \in Seq(Sources) /\ infile \in Values
  BY DEF TypeOK, Places, Work, Values
<1>i. ASSUME UNCHANGED input,
             pc' \in Places, at' \in 0..Len(ctx), pending' \in Seq(Work),
             imports' \in Seq(Paths), allhttps' \in Seq(Sources), infile' \in Values
      PROVE  TypeOK'
  <2>1. Sources' = Sources
    BY <1>i DEF Sources, ContextIds
  <2> QED
    BY <1>i, <1>t, <2>1 DEF TypeOK, Places, Work, Values
<1>e. <<>> \in Seq(Work) /\ 1 \in 1..(Depth + 1)
  OBVIOUS
<1>s. Own \in Sources /\ \A p \in Paths : File(p) \in Sources
  BY DEF Sources
<1>1. CASE ParseOwn
  <2>1. own.imports \in Seq(Paths) /\ <<Own>> \in Seq(Sources)
    BY <1>t, <1>s DEF AllShapes
  <2>2. Nested(own.imports, 1) \in Seq(Work)
    BY <1>e, <2>1, NestedWork
  <2> QED
    BY <1>1, <1>i, <1>t, <2>1, <2>2 DEF ParseOwn, Places, Ended
<1>2. CASE LoadImport
  <2>0. pending # <<>> /\ ~ImportRaises
    BY <1>2 DEF LoadImport
  <2>1. /\ Head(pending).depth + 1 \in 1..(Depth + 1)
        /\ lib[Head(pending).path].imports \in Seq(Paths)
        /\ Tail(pending) \in Seq(Work)
        /\ Head(pending).path \in Paths
    BY <2>0, NextImport DEF ImportRaises, Work
  <2>2. Nested(lib[Head(pending).path].imports, Head(pending).depth + 1) \in Seq(Work)
    BY <2>1, NestedWork
  <2>3. pending' \in Seq(Work)
    BY <1>2, <2>1, <2>2 DEF LoadImport
  <2>f. File(Head(pending).path) \in Sources
    BY <1>s, <2>1
  <2>4. allhttps' \in Seq(Sources) /\ infile' \in Values
    <3>1. WithInline(WithVar(infile, File(Head(pending).path)), {File(Head(pending).path)}) \in Values
      <4>1. {File(Head(pending).path)} \in SUBSET Sources
        BY <2>f
      <4> QED
        BY <1>t, <2>f, <4>1, ValueType
    <3> QED
      BY <1>2, <1>t, <2>f, <3>1 DEF LoadImport
  <2> QED
    BY <1>2, <1>i, <1>t, <2>3, <2>4 DEF LoadImport
<1>3. CASE ImportFails
  <2>1. Head(pending).path \in Paths
    BY <1>3, NextImport DEF ImportFails
  <2>f. /\ File(Head(pending).path) \in Sources
        /\ WithVar(infile, File(Head(pending).path)) \in Values
    <3>1. File(Head(pending).path) \in Sources
      BY <1>s, <2>1
    <3> QED
      BY <1>t, <3>1, ValueType
  <2>2. allhttps' \in Seq(Sources) /\ infile' \in Values
    <3>1. CASE ImportRaises
      BY <1>3, <1>t, <3>1 DEF ImportFails
    <3>2. CASE ~ImportRaises
      <4>1. /\ allhttps' = Append(allhttps, File(Head(pending).path))
            /\ infile' = WithVar(infile, File(Head(pending).path))
        BY <1>3, <3>2 DEF ImportFails
      <4> QED
        BY <1>t, <2>f, <4>1
    <3> QED
      BY <3>1, <3>2
  <2> QED
    BY <1>3, <1>i, <1>t, <1>e, <2>2 DEF ImportFails, Places, Ended
<1>4. CASE ImportsDone
  BY <1>4, <1>i, <1>t DEF ImportsDone, Places
<1>5. CASE Validate
  <2>1. {Own} \cup {Context(c) : c \in ContextIds} \in SUBSET Sources
    BY DEF Sources
  <2>2. infile' \in Values
    BY <1>5, <1>t, <1>s, <2>1, ValueType DEF Validate
  <2> QED
    BY <1>5, <1>i, <1>t, <2>2 DEF Validate, Places, Ended
<1>c. ASSUME at < Len(ctx) PROVE Context(at + 1) \in Sources /\ IfNone(at + 1) \in Values
  <2>1. Context(at + 1) \in Sources
    BY <1>c, <1>t DEF Sources, ContextIds
  <2> QED
    BY <1>t, <2>1, ValueType DEF IfNone
<1>6. CASE SkipContext
  <2>1. infile' \in Values /\ at + 1 \in 0..Len(ctx)
    BY <1>6, <1>c, <1>t DEF SkipContext
  <2> QED
    BY <1>6, <1>i, <1>t, <2>1 DEF SkipContext
<1>7. CASE MergeContext
  <2>1. at + 1 \in 1..Len(ctx)
    BY <1>7, <1>t DEF MergeContext
  <2>2. Context(at + 1) \in Sources /\ ctx[at + 1] \in AllShapes
    BY <1>t, <2>1 DEF Sources, ContextIds
  <2>3. ctx[at + 1].imports \in Seq(Paths)
    BY <2>2 DEF AllShapes
  <2>4. imports' \in Seq(Paths)
    <3>1. imports \o ctx[at + 1].imports \in Seq(Paths)
      BY <1>t, <2>3
    <3>2. imports' = imports \/ imports' = imports \o ctx[at + 1].imports
      BY <1>7 DEF MergeContext
    <3> QED
      BY <1>t, <3>1, <3>2
  <2>5. pending' \in Seq(Work)
    BY <1>7, <1>t, <1>e, <2>4, NestedWork DEF MergeContext
  <2>6. allhttps' \in Seq(Sources) /\ infile' \in Values
    BY <1>7, <1>c, <1>t, <2>2 DEF MergeContext
  <2> QED
    BY <1>7, <1>i, <1>t, <2>1, <2>4, <2>5, <2>6 DEF MergeContext, Places
<1>8. CASE ContextsDone
  BY <1>8, <1>i, <1>t DEF ContextsDone, Places, Ended
<1>9. CASE UNCHANGED vars
  BY <1>9, <1>i, <1>t DEF vars
<1> QED
  BY <1>1, <1>2, <1>3, <1>4, <1>5, <1>6, <1>7, <1>8, <1>9 DEF Next

\* Type correctness for any texts, files and contexts.
THEOREM TypeCorrect == Spec => []TypeOK
BY TypeInit, TypeStep, PTL DEF Spec

-----------------------------------------------------------------------------
\* Once there are definitions, a step appends at most one to them.
LEMMA Grows ==
    ASSUME TypeOK, [Next]_vars
    PROVE  /\ UNCHANGED input
           /\ \/ allhttps' = allhttps
              \/ pc = "parse" /\ allhttps' = <<Own>>
              \/ \E s \in Sources : allhttps' = Append(allhttps, s)
<1> USE DEF input
<1>1. CASE LoadImport \/ ImportFails
  <2>1. Head(pending).path \in Paths
    BY <1>1, NextImport DEF LoadImport, ImportFails
  <2>2. File(Head(pending).path) \in Sources
    BY <2>1 DEF Sources
  <2> QED
    BY <1>1, <2>2 DEF LoadImport, ImportFails
<1>2. CASE MergeContext
  <2>1. Context(at + 1) \in Sources
    BY <1>2 DEF MergeContext, TypeOK, Sources, ContextIds
  <2> QED
    BY <1>2, <2>1 DEF MergeContext
<1>3. CASE ParseOwn \/ ImportsDone \/ Validate \/ SkipContext \/ ContextsDone \/ UNCHANGED vars
  BY <1>3 DEF ParseOwn, ImportsDone, Validate, SkipContext, ContextsDone, vars
<1> QED
  BY <1>1, <1>2, <1>3 DEF Next

\* Before the text is parsed there are no definitions.
NothingYet == pc = "parse" => allhttps = <<>> /\ at = 0

\* Every step keeps NothingYet.
LEMMA NothingYetStep == TypeOK /\ NothingYet /\ [Next]_vars => NothingYet'
BY DEF NothingYet, Next, vars, ParseOwn, LoadImport, ImportFails, ImportsDone, Validate,
   SkipContext, MergeContext, ContextsDone, TypeOK, Ended

\* What is loaded stays where it is.
LEMMA Prefix ==
    ASSUME TypeOK, NothingYet, [Next]_vars
    PROVE  /\ UNCHANGED input
           /\ \A i \in DOMAIN allhttps : i \in DOMAIN allhttps' /\ allhttps'[i] = allhttps[i]
           /\ Loaded \subseteq Loaded'
<1>1. allhttps \in Seq(Sources)
  BY DEF TypeOK
<1>2. UNCHANGED input
  BY Grows
<1>3. \A i \in DOMAIN allhttps : i \in DOMAIN allhttps' /\ allhttps'[i] = allhttps[i]
  <2>1. CASE allhttps' = allhttps \/ allhttps = <<>>
    BY <2>1
  <2>2. ASSUME NEW s \in Sources, allhttps' = Append(allhttps, s)
        PROVE  \A i \in DOMAIN allhttps : i \in DOMAIN allhttps' /\ allhttps'[i] = allhttps[i]
    BY <1>1, <2>2
  <2> QED
    BY <2>1, <2>2, Grows DEF NothingYet
<1> QED
  BY <1>2, <1>3 DEF Loaded

\* Merging contexts never changes what a name selects, for any number of
\* definitions (parse/__init__.py:335-342, basic_handlers.py:247).
THEOREM FirstDefinitionKept == Spec => FirstDefinitionStays
<1> DEFINE Stays == \A n \in Names : \A i \in DOMAIN allhttps :
                      Selects(n, i) => Selects(n, i)' /\ allhttps'[i] = allhttps[i]
<1>1. TypeOK /\ NothingYet /\ [Next]_vars => Stays
  <2> SUFFICES ASSUME TypeOK, NothingYet, [Next]_vars,
                      NEW n \in Names, NEW i \in DOMAIN allhttps, Selects(n, i)
               PROVE  Selects(n, i)' /\ allhttps'[i] = allhttps[i]
    OBVIOUS
  <2>1. \A s : NameOf(s)' = NameOf(s)
    BY Prefix DEF NameOf, Shape, input
  <2>2. allhttps \in Seq(Sources)
    BY DEF TypeOK
  <2>3. \A j \in 1..i : j \in DOMAIN allhttps' /\ allhttps'[j] = allhttps[j]
    BY <2>2, Prefix
  <2> QED
    BY <2>1, <2>2, <2>3 DEF Selects
<1>2. Init => NothingYet
  BY DEF Init, NothingYet
<1>3. TypeOK /\ NothingYet /\ [Next]_vars => [Stays]_vars
  BY <1>1
<1> QED
  BY <1>2, <1>3, NothingYetStep, TypeInit, TypeStep, PTL DEF Spec, FirstDefinitionStays

-----------------------------------------------------------------------------
\* Contexts are merged one by one.
MergedInv ==
    /\ pc = "ready" => at = Len(ctx)
    /\ \A c \in 1..at : ctx[c].kind = "good" => Context(c) \in Loaded

\* Every step keeps MergedInv.
LEMMA MergedStep == TypeOK /\ NothingYet /\ MergedInv /\ [Next]_vars => MergedInv'
<1> SUFFICES ASSUME TypeOK, NothingYet, MergedInv, [Next]_vars PROVE MergedInv'
  OBVIOUS
<1>0. at \in 0..Len(ctx) /\ Len(ctx) \in Nat /\ allhttps \in Seq(Sources)
  BY DEF TypeOK
<1>1. ctx' = ctx /\ Loaded \subseteq Loaded'
  BY Prefix DEF input
<1>2. CASE at' = at /\ (pc' = "ready" => at = Len(ctx))
  BY <1>1, <1>2 DEF MergedInv
<1>3. CASE SkipContext
  BY <1>0, <1>1, <1>3 DEF SkipContext, MergedInv
<1>4. CASE MergeContext
  <2>1. Context(at + 1) \in Loaded'
    BY <1>0, <1>4 DEF MergeContext, Loaded
  <2>2. at' = at + 1 /\ pc' # "ready"
    BY <1>4 DEF MergeContext
  <2> QED
    BY <1>0, <1>1, <2>1, <2>2 DEF MergedInv
<1> QED
  BY <1>2, <1>3, <1>4 DEF Next, vars, ParseOwn, LoadImport, ImportFails, ImportsDone, Validate,
     ContextsDone, MergedInv

\* A good context is merged whatever is wrong with the others, for any number
\* of contexts (basic_handlers.py:256-259).
THEOREM GoodContextsAreMerged == Spec => []GoodContextsMerged
<1>1. Init => NothingYet /\ MergedInv
  BY DEF Init, NothingYet, MergedInv
<1>2. TypeOK /\ MergedInv => GoodContextsMerged
  BY DEF TypeOK, MergedInv, GoodContextsMerged, ContextIds
<1> QED
  BY <1>1, <1>2, TypeInit, TypeStep, NothingYetStep, MergedStep, PTL DEF Spec

-----------------------------------------------------------------------------
\* p is loaded, or among the imports still to be loaded.
Seen(p) == File(p) \in Loaded \/ \E k \in DOMAIN pending : pending[k].path = p

\* While the text's own imports are loaded, whatever they need is seen, and
\* what is loaded is good.
ImportInv ==
    (pc = "import" /\ at = 0) =>
        /\ \A i \in DOMAIN own.imports : Seen(own.imports[i])
        /\ \A p \in Paths : File(p) \in Loaded =>
              /\ lib[p].kind = "good"
              /\ \A i \in DOMAIN lib[p].imports : Seen(lib[p].imports[i])

\* Afterwards everything reachable is loaded and good.
Complete == \A p \in Reachable(own.imports) : lib[p].kind = "good" /\ File(p) \in Loaded

CompleteInv ==
    (pc \in {"validate", "context", "ready"} \/ (pc = "import" /\ at # 0)) => Complete

\* Sources of different kinds and paths are different.
LEMMA SourcesDiffer ==
    /\ \A p : File(p) # Own
    /\ \A p, q : File(p) = File(q) => p = q
BY DEF File, Own

\* Reading one import keeps what was seen.
LEMMA SeenStays ==
    ASSUME TypeOK, LoadImport, NEW q, Seen(q)
    PROVE  Seen(q)'
<1>0. /\ pending # <<>> /\ pending \in Seq(Work) /\ allhttps \in Seq(Sources)
      /\ Tail(pending) \in Seq(Work)
      /\ Head(pending) = pending[1]
  BY NextImport DEF LoadImport, TypeOK, Work
<1> DEFINE p == Head(pending).path
           new == Nested(lib[p].imports, Head(pending).depth + 1)
<1>1. allhttps' = Append(allhttps, File(p)) /\ pending' = new \o Tail(pending)
  BY DEF LoadImport
<1>2. File(p) \in Loaded' /\ Loaded \subseteq Loaded'
  <2>1. File(p) \in Sources
    BY <1>0, NextImport DEF Sources
  <2>2. /\ Len(allhttps) + 1 \in DOMAIN allhttps' /\ allhttps'[Len(allhttps) + 1] = File(p)
        /\ \A i \in DOMAIN allhttps : i \in DOMAIN allhttps' /\ allhttps'[i] = allhttps[i]
    BY <1>0, <1>1, <2>1
  <2> QED
    BY <2>2 DEF Loaded
<1>3. CASE File(q) \in Loaded
  BY <1>2, <1>3 DEF Seen
<1>4. ASSUME NEW k \in DOMAIN pending, pending[k].path = q
      PROVE  Seen(q)'
  <2>1. CASE k = 1
    BY <1>0, <1>2, <1>4, <2>1 DEF Seen
  <2>2. CASE k # 1
    <3>1. /\ k - 1 \in DOMAIN Tail(pending) /\ Tail(pending)[k - 1] = pending[k]
      BY <1>0, <2>2
    <3>2. DOMAIN new = 1..Len(new) /\ Len(new) \in Nat /\ new \in Seq(Work)
      <4>1. Head(pending).depth + 1 \in 1..(Depth + 1)
        BY <1>0, NextImport DEF LoadImport, ImportRaises, Work
      <4>2. new \in Seq(Work)
        BY <1>0, <4>1, NextImport, NestedWork
      <4> QED
        BY <4>2
    <3>3. /\ Len(new) + (k - 1) \in DOMAIN (new \o Tail(pending))
          /\ (new \o Tail(pending))[Len(new) + (k - 1)] = Tail(pending)[k - 1]
      BY <1>0, <3>1, <3>2
    <3> QED
      BY <1>1, <1>4, <3>1, <3>3 DEF Seen
  <2> QED
    BY <2>1, <2>2
<1> QED
  BY <1>3, <1>4 DEF Seen

\* Reading one import sees what it imports.
LEMMA SeenNew ==
    ASSUME TypeOK, LoadImport, NEW p, p = Head(pending).path,
           NEW i \in DOMAIN lib[p].imports
    PROVE  Seen(lib[p].imports[i])'
<1> DEFINE new == Nested(lib[p].imports, Head(pending).depth + 1)
<1>1. lib[p].imports \in Seq(Paths) /\ Tail(pending) \in Seq(Work)
  BY NextImport DEF LoadImport
<1>2. DOMAIN new = DOMAIN lib[p].imports /\ new[i].path = lib[p].imports[i]
  BY DEF Nested
<1>3. new \in Seq(Work)
  <2>1. Head(pending).depth + 1 \in 1..(Depth + 1)
    BY NextImport DEF LoadImport, ImportRaises, Work
  <2> QED
    BY <1>1, <2>1, NestedWork
<1>4. i \in DOMAIN (new \o Tail(pending)) /\ (new \o Tail(pending))[i] = new[i]
  BY <1>1, <1>2, <1>3
<1>5. pending' = new \o Tail(pending) /\ lib' = lib
  BY DEF LoadImport, input
<1> QED
  BY <1>2, <1>4, <1>5 DEF Seen

\* Every step keeps ImportInv.
LEMMA ImportStep == TypeOK /\ NothingYet /\ ImportInv /\ [Next]_vars => ImportInv'
<1> SUFFICES ASSUME TypeOK, NothingYet, ImportInv, [Next]_vars, (pc = "import" /\ at = 0)'
             PROVE  /\ \A i \in DOMAIN own'.imports : Seen(own.imports[i])'
                    /\ \A p \in Paths : (File(p) \in Loaded)' =>
                          /\ lib'[p].kind = "good"
                          /\ \A i \in DOMAIN lib'[p].imports : Seen(lib[p].imports[i])'
  BY DEF ImportInv
<1>u. own' = own /\ lib' = lib
  BY Grows DEF input
<1>1. CASE ParseOwn
  <2>1. allhttps' = <<Own>> /\ pending' = Nested(own.imports, 1)
    BY <1>1 DEF ParseOwn
  <2>2. \A p \in Paths : File(p) \notin Loaded'
    BY <2>1, SourcesDiffer DEF Loaded
  <2>3. ASSUME NEW i \in DOMAIN own.imports PROVE Seen(own.imports[i])'
    <3>1. i \in DOMAIN pending' /\ pending'[i].path = own.imports[i]
      BY <2>1, <2>3 DEF Nested
    <3> QED
      BY <1>u, <3>1 DEF Seen
  <2> QED
    BY <1>u, <2>2, <2>3
<1>2. CASE LoadImport
  <2>0. pc = "import" /\ at = 0
    BY <1>2 DEF LoadImport
  <2>1. \A i \in DOMAIN own.imports : Seen(own.imports[i])'
    <3> SUFFICES ASSUME NEW i \in DOMAIN own.imports PROVE Seen(own.imports[i])'
      OBVIOUS
    <3> DEFINE q == own.imports[i]
    <3>1. Seen(q)
      BY <2>0 DEF ImportInv
    <3> QED
      BY <1>2, <1>u, <3>1, SeenStays DEF Seen
  <2>2. ASSUME NEW p \in Paths, File(p) \in Loaded'
        PROVE  lib[p].kind = "good" /\ \A i \in DOMAIN lib[p].imports : Seen(lib[p].imports[i])'
    <3>1. CASE File(p) \in Loaded
      <4>1. lib[p].kind = "good" /\ \A i \in DOMAIN lib[p].imports : Seen(lib[p].imports[i])
        BY <2>0, <3>1 DEF ImportInv
      <4> QED
        BY <1>2, <1>u, <4>1, SeenStays DEF Seen
    <3>2. CASE File(p) \notin Loaded
      <4>1. allhttps' = Append(allhttps, File(Head(pending).path)) /\ allhttps \in Seq(Sources)
        BY <1>2 DEF LoadImport, TypeOK
      <4>2. p = Head(pending).path
        BY <2>2, <3>2, <4>1, SourcesDiffer DEF Loaded
      <4>3. lib[p].kind = "good"
        BY <1>2, <4>2 DEF LoadImport
      <4> QED
        BY <1>2, <4>2, <4>3, SeenNew
    <3> QED
      BY <3>1, <3>2
  <2> QED
    BY <1>u, <2>1, <2>2
<1>3. CASE UNCHANGED vars
  BY <1>3 DEF vars, ImportInv, Seen, Loaded
<1>4. CASE ImportFails \/ ImportsDone \/ Validate \/ SkipContext \/ MergeContext \/ ContextsDone
  BY <1>4 DEF ImportFails, ImportsDone, Validate, SkipContext, MergeContext, ContextsDone, TypeOK
<1> QED
  BY <1>1, <1>2, <1>3, <1>4 DEF Next

\* When nothing is pending, what is loaded is closed under imports, so
\* everything reachable is loaded and good.
LEMMA NothingPending ==
    ASSUME TypeOK, ImportInv, pc = "import", at = 0, pending = <<>>
    PROVE  Complete
<1> DEFINE S == {p \in Paths : File(p) \in Loaded}
<1>1. \A p : Seen(p) => File(p) \in Loaded
  BY DEF Seen
<1>2. ClosedUnderImports(S, own.imports)
  <2>1. ASSUME NEW i \in DOMAIN own.imports PROVE own.imports[i] \in S
    <3>1. own.imports[i] \in Paths
      BY DEF TypeOK, AllShapes
    <3> QED
      BY <1>1, <3>1 DEF ImportInv
  <2>2. ASSUME NEW p \in S, NEW i \in DOMAIN lib[p].imports PROVE lib[p].imports[i] \in S
    <3>1. lib[p].imports[i] \in Paths
      BY DEF TypeOK, AllShapes
    <3> QED
      BY <1>1, <3>1 DEF ImportInv
  <2> QED
    BY <2>1, <2>2 DEF ClosedUnderImports
<1>3. \A p \in Reachable(own.imports) : p \in S
  BY <1>2 DEF Reachable
<1> QED
  BY <1>3 DEF Complete, ImportInv

\* Every step keeps CompleteInv.
LEMMA CompleteStep == TypeOK /\ NothingYet /\ ImportInv /\ CompleteInv /\ [Next]_vars => CompleteInv'
<1> SUFFICES ASSUME TypeOK, NothingYet, ImportInv, CompleteInv, [Next]_vars PROVE CompleteInv'
  OBVIOUS
<1>1. own' = own /\ lib' = lib /\ Loaded \subseteq Loaded'
  BY Prefix DEF input
<1>2. Reachable(own.imports)' = Reachable(own.imports)
  BY <1>1 DEF Reachable, ClosedUnderImports
<1>3. Complete => Complete'
  BY <1>1, <1>2 DEF Complete
<1>4. CASE ImportsDone /\ at = 0
  BY <1>3, <1>4, NothingPending DEF ImportsDone, CompleteInv
<1>5. CASE ~(ImportsDone /\ at = 0)
  <2>1. (pc' \in {"validate", "context", "ready"} \/ (pc' = "import" /\ at' # 0))
          => pc \in {"validate", "context", "ready"} \/ (pc = "import" /\ at # 0)
    BY <1>5 DEF Next, vars, ParseOwn, LoadImport, ImportFails, ImportsDone, Validate,
       SkipContext, MergeContext, ContextsDone, TypeOK, NothingYet
  <2> QED
    BY <1>3, <2>1 DEF CompleteInv
<1> QED
  BY <1>4, <1>5

\* A text that is ready has the definitions of every file reachable from its
\* imports, for any number of files, however they import each other and
\* whatever the contexts are (parse/__init__.py:241-247, 274).
THEOREM ReadyWithImports == Spec => []ReadyHasImports
<1>1. Init => NothingYet /\ ImportInv /\ CompleteInv
  BY DEF Init, NothingYet, ImportInv, CompleteInv
<1>2. CompleteInv => ReadyHasImports
  BY DEF CompleteInv, Complete, ReadyHasImports
<1> QED
  BY <1>1, <1>2, TypeInit, TypeStep, NothingYetStep, ImportStep, CompleteStep, PTL DEF Spec

\* Both at once: whatever is imported and whichever contexts are broken, a
\* text that is ready is whole (parse/__init__.py:236-247,
\* basic_handlers.py:240-262).
THEOREM ReadyTextIsWhole == Spec => []ReadyIsWhole
<1>1. ReadyHasImports /\ GoodContextsMerged => ReadyIsWhole
  BY DEF ReadyIsWhole
<1> QED
  BY <1>1, ReadyWithImports, GoodContextsAreMerged, PTL

-----------------------------------------------------------------------------
\* The texts, files and contexts are among those to be loaded.
InputInv == \E i \in Inputs : own = i.own /\ lib = i.lib /\ ctx = i.ctx

\* If no context imports anything: first come the files reachable from the
\* text, which give what files in any order may give, then the text's own
\* variable, the inline values and the contexts'.
VarInv ==
    ~ContextImports =>
        /\ pc \in {"parse", "import", "validate"} =>
              /\ at = 0
              /\ \A k \in DOMAIN pending : pending[k].path \in Reachable(own.imports)
              /\ Loaded \ {Own} \subseteq Imported
              /\ infile \in Outcomes(Loaded \ {Own})
        /\ pc \in {"context", "ready"} =>
              /\ infile \in Nearest(at)
              /\ infile = NoSource => \A d \in 1..at : ~OffersVar(d)

\* Every step leaves the input as it is.
LEMMA InputStep == InputInv /\ TypeOK /\ [Next]_vars => InputInv'
BY Grows DEF InputInv, input

\* No source gives the value that stands for none, or for a conflict.
LEMMA ValuesAreValues ==
    ASSUME TypeOK, InputInv
    PROVE  NoSource \notin ValuesOf(Sources) /\ Conflict \notin ValuesOf(Sources) \cup {NoSource}
<1>1. Sources \subseteq AllSources
  BY DEF InputInv, Sources, AllSources, ContextIds
<1> QED
  BY <1>1 DEF ValuesOf

\* What variables U and inline values I may give, loaded in any order.
Possible(U, I) ==
    IF Agreed(U \cup I) # Conflict THEN {Agreed(U \cup I)} ELSE U \cup {Conflict}

\* What is possible with one value only, with none, and with several.
LEMMA PossibleIs ==
    ASSUME NEW U, NEW I, NoSource \notin U \cup I, Conflict \notin U \cup I, NoSource # Conflict
    PROVE  /\ U \cup I = {} => Possible(U, I) = {NoSource}
           /\ \A v : U \cup I = {v} => Possible(U, I) = {v}
           /\ (U \cup I # {} /\ \A v : U \cup I # {v}) => Possible(U, I) = U \cup {Conflict}
<1>1. ASSUME U \cup I = {} PROVE Possible(U, I) = {NoSource}
  <2>1. Agreed(U \cup I) = NoSource
    BY <1>1, AgreedIs
  <2> QED
    BY <2>1 DEF Possible
<1>2. ASSUME NEW v, U \cup I = {v} PROVE Possible(U, I) = {v}
  <2>1. Agreed(U \cup I) = v
    BY <1>2, AgreedIs
  <2>2. v # Conflict
    BY <1>2
  <2> QED
    BY <2>1, <2>2 DEF Possible
<1>3. ASSUME U \cup I # {}, \A v : U \cup I # {v} PROVE Possible(U, I) = U \cup {Conflict}
  <2>1. Agreed(U \cup I) = Conflict
    BY <1>3, AgreedIs
  <2> QED
    BY <2>1 DEF Possible
<1> QED
  BY <1>1, <1>2, <1>3

\* One or two values, or a value that may be none.
LEMMA AgreedFew ==
    /\ \A u : Agreed({u}) = u
    /\ \A u, w : u # w => Agreed({u, w}) = Conflict
    /\ \A u : Agreed({u} \ {NoSource}) = u
<1>1. ASSUME NEW u PROVE Agreed({u}) = u
  BY AgreedIs
<1>2. ASSUME NEW u, NEW w, u # w PROVE Agreed({u, w}) = Conflict
  BY <1>2, AgreedIs
<1>3. ASSUME NEW u PROVE Agreed({u} \ {NoSource}) = u
  <2>1. CASE u = NoSource
    <3>1. {u} \ {NoSource} = {}
      BY <2>1
    <3>2. Agreed({}) = NoSource
      BY AgreedIs
    <3> QED
      BY <2>1, <3>1, <3>2
  <2>2. CASE u # NoSource
    <3>1. {u} \ {NoSource} = {u}
      BY <2>2
    <3> QED
      BY <1>1, <3>1
  <2> QED
    BY <2>1, <2>2
<1> QED
  BY <1>1, <1>2, <1>3

\* A variable a is one more that is possible, and it replaces what was there.
LEMMA VarPossible ==
    ASSUME NEW U, NEW I, NEW a, NoSource \notin U \cup I \cup {a},
           Conflict \notin U \cup I \cup {a}, NoSource # Conflict
    PROVE  a \in Possible(U \cup {a}, I)
<1>1. CASE \E v : (U \cup {a}) \cup I = {v}
  <2>1. (U \cup {a}) \cup I = {a}
    BY <1>1
  <2> QED
    BY <2>1, PossibleIs
<1>2. CASE ~\E v : (U \cup {a}) \cup I = {v}
  <2>1. Possible(U \cup {a}, I) = (U \cup {a}) \cup {Conflict}
    BY <1>2, PossibleIs
  <2> QED
    BY <2>1
<1> QED
  BY <1>1, <1>2

\* With a variable and an inline value there is a conflict.
LEMMA BothPossible ==
    ASSUME NEW U, NEW I, NEW a, NEW b, NoSource \notin U \cup I \cup {a, b},
           Conflict \notin U \cup I \cup {a, b}, NoSource # Conflict, a # b
    PROVE  Conflict \in Possible(U \cup {a}, I \cup {b})
<1>1. \A v : (U \cup {a}) \cup (I \cup {b}) # {v}
  OBVIOUS
<1>2. Possible(U \cup {a}, I \cup {b}) = (U \cup {a}) \cup {Conflict}
  BY <1>1, PossibleIs
<1> QED
  BY <1>2

\* An inline value b agrees with what was there, or is in conflict with it.
LEMMA InlinePossible ==
    ASSUME NEW U, NEW I, NEW b, NoSource \notin U \cup I \cup {b},
           Conflict \notin U \cup I \cup {b}, NoSource # Conflict, b \notin U,
           NEW x \in Possible(U, I)
    PROVE  Agreed(({x} \ {NoSource}) \cup {b}) \in Possible(U, I \cup {b})
<1> DEFINE V == U \cup I
<1>0. U \cup (I \cup {b}) = V \cup {b}
  OBVIOUS
<1>1. CASE V \subseteq {b}
  <2>1. x \in {NoSource, b}
    <3>1. V = {} \/ V = {b}
      BY <1>1
    <3> QED
      BY <3>1, PossibleIs
  <2>2. ({x} \ {NoSource}) \cup {b} = {b}
    BY <2>1
  <2>3. V \cup {b} = {b}
    BY <1>1
  <2>4. Possible(U, I \cup {b}) = {b}
    BY <1>0, <2>3, PossibleIs
  <2>5. Agreed({b}) = b
    BY AgreedFew
  <2> QED
    BY <2>2, <2>4, <2>5
<1>2. CASE ~(V \subseteq {b})
  <2>1. x \notin {NoSource, b}
    <3>1. CASE \E v : V = {v}
      BY <1>2, <3>1, PossibleIs
    <3>2. CASE ~\E v : V = {v}
      <4>1. V # {}
        BY <1>2
      <4>2. Possible(U, I) = U \cup {Conflict}
        BY <3>2, <4>1, PossibleIs
      <4> QED
        BY <4>2
    <3> QED
      BY <3>1, <3>2
  <2>2. ({x} \ {NoSource}) \cup {b} = {x, b}
    BY <2>1
  <2>3. \A v : V \cup {b} # {v}
    BY <1>2
  <2>4. Possible(U, I \cup {b}) = U \cup {Conflict}
    BY <1>0, <2>3, PossibleIs
  <2>5. Agreed({x, b}) = Conflict
    BY <2>1, AgreedFew
  <2> QED
    BY <2>2, <2>4, <2>5
<1> QED
  BY <1>1, <1>2

\* One more file: what the files before it may give becomes what all of them
\* may give.
LEMMA OneMore ==
    ASSUME TypeOK, InputInv, NEW S \in SUBSET Sources, NEW s \in Sources,
           NEW x \in Outcomes(S)
    PROVE  WithInline(WithVar(x, s), {s}) \in Outcomes(S \cup {s})
<1>o. \A T : Outcomes(T) = Possible(Vars(T), Inline(T))
  BY DEF Outcomes, Possible
<1>v. /\ Vars(S \cup {s}) = IF Shape(s).var THEN Vars(S) \cup {VarOf(s)} ELSE Vars(S)
      /\ Inline(S \cup {s}) = IF Shape(s).inline THEN Inline(S) \cup {InlineOf(s)} ELSE Inline(S)
      /\ Inline({s}) = IF Shape(s).inline THEN {InlineOf(s)} ELSE {}
  BY DEF Vars, Inline
<1>n. /\ NoSource \notin Vars(S) \cup Inline(S) \cup {VarOf(s), InlineOf(s)}
      /\ Conflict \notin Vars(S) \cup Inline(S) \cup {VarOf(s), InlineOf(s)}
      /\ NoSource # Conflict /\ VarOf(s) # InlineOf(s) /\ InlineOf(s) \notin Vars(S)
  <2>1. Vars(S) \cup Inline(S) \cup {VarOf(s), InlineOf(s)} \subseteq ValuesOf(Sources)
    BY DEF Vars, Inline, ValuesOf
  <2>2. \A q : VarOf(q) # InlineOf(s)
    BY DEF VarOf, InlineOf
  <2> QED
    BY <2>1, <2>2, ValuesAreValues DEF Vars
<1> DEFINE y == WithInline(WithVar(x, s), {s})
<1>w. y = Agreed(({WithVar(x, s)} \ {NoSource}) \cup Inline({s}))
  BY DEF WithInline
<1> HIDE DEF y
<1>1. CASE Shape(s).var /\ Shape(s).inline
  <2>1. ({WithVar(x, s)} \ {NoSource}) \cup Inline({s}) = {VarOf(s), InlineOf(s)}
    BY <1>1, <1>n, <1>v DEF WithVar
  <2>c. Agreed({VarOf(s), InlineOf(s)}) = Conflict
    BY <1>n, AgreedFew
  <2>2. y = Conflict
    BY <1>w, <2>1, <2>c
  <2> QED
    BY <1>1, <1>n, <1>o, <1>v, <2>2, BothPossible DEF y
<1>2. CASE Shape(s).var /\ ~Shape(s).inline
  <2>1. ({WithVar(x, s)} \ {NoSource}) \cup Inline({s}) = {VarOf(s)}
    BY <1>2, <1>n, <1>v DEF WithVar
  <2>2. y = VarOf(s)
    BY <1>w, <2>1, AgreedFew
  <2> QED
    BY <1>2, <1>n, <1>o, <1>v, <2>2, VarPossible DEF y
<1>3. CASE ~Shape(s).var /\ Shape(s).inline
  <2>1. y = Agreed(({x} \ {NoSource}) \cup {InlineOf(s)})
    BY <1>3, <1>v, <1>w DEF WithVar
  <2>2. x \in Possible(Vars(S), Inline(S))
    BY <1>o
  <2>3. y \in Possible(Vars(S), Inline(S) \cup {InlineOf(s)})
    BY <1>n, <2>1, <2>2, InlinePossible
  <2>4. Outcomes(S \cup {s}) = Possible(Vars(S), Inline(S) \cup {InlineOf(s)})
    BY <1>3, <1>o, <1>v
  <2> QED
    BY <2>3, <2>4 DEF y
<1>4. CASE ~Shape(s).var /\ ~Shape(s).inline
  <2>1. y = Agreed({x} \ {NoSource})
    <3>1. ({WithVar(x, s)} \ {NoSource}) \cup Inline({s}) = {x} \ {NoSource}
      BY <1>4, <1>v DEF WithVar
    <3> QED
      BY <1>w, <3>1
  <2>2. y = x
    BY <2>1, AgreedFew
  <2> QED
    BY <1>4, <1>o, <1>v, <2>2 DEF y
<1> QED
  BY <1>1, <1>2, <1>3, <1>4

\* What a source is like.
LEMMA Shapes ==
    /\ Shape(Own) = own
    /\ \A p : Shape(File(p)) = lib[p] /\ File(p) # Own
    /\ \A c : Shape(Context(c)) = ctx[c]
BY DEF Shape, Own, File, Context

\* With all imports loaded, the value is one there may be before the contexts.
LEMMA ValidatedNearest ==
    ASSUME TypeOK, InputInv, CompleteInv, VarInv, ~ContextImports, Validate, pc' = "context"
    PROVE  infile' \in Nearest(0)
<1>1. pc = "validate" /\ infile' = WithInline(WithVar(infile, Own),
                                            {Own} \cup {Context(c) : c \in ContextIds})
  BY DEF Validate
<1>2. Loaded \ {Own} = Imported
  <2>1. Loaded \ {Own} \subseteq Imported
    BY <1>1 DEF VarInv
  <2>2. Imported \subseteq Loaded
    BY <1>1 DEF CompleteInv, Complete, Imported, Reachable
  <2>3. Own \notin Imported
    BY SourcesDiffer DEF Imported
  <2> QED
    BY <2>1, <2>2, <2>3
<1>3. WithVar(infile, Own) \in IF own.var THEN {VarOf(Own)} ELSE Outcomes(Imported)
  BY <1>1, <1>2, Shapes DEF VarInv, WithVar
<1>4. FirstOffer(0) = {}
  BY DEF FirstOffer
<1> QED
  BY <1>1, <1>3, <1>4 DEF Nearest, BeforeContexts

\* A value that is there before the contexts is one of theirs, or none.
LEMMA BeforeType ==
    ASSUME TypeOK, InputInv
    PROVE  /\ \A n : FirstOffer(n) \subseteq {VarOf(Context(c)) : c \in 1..n}
           /\ NoSource \in BeforeContexts => BeforeContexts = {NoSource}
<1>1. ASSUME NoSource \in BeforeContexts PROVE BeforeContexts = {NoSource}
  <2> DEFINE All == {Own} \cup {Context(c) : c \in ContextIds}
             First == IF own.var THEN {VarOf(Own)} ELSE Outcomes(Imported)
  <2>0. /\ BeforeContexts = {WithInline(v, All) : v \in First}
        /\ Own \in Sources /\ All \subseteq Sources /\ Imported \subseteq Sources
    BY DEF BeforeContexts, Sources, Imported, Reachable
  <2>1. /\ NoSource \notin Inline(All) /\ NoSource # Conflict /\ VarOf(Own) # NoSource
        /\ NoSource \notin Vars(Imported) \cup Inline(Imported)
        /\ Conflict \notin Vars(Imported) \cup Inline(Imported)
    <3>1. /\ Inline(All) \subseteq ValuesOf(Sources) /\ VarOf(Own) \in ValuesOf(Sources)
          /\ Vars(Imported) \cup Inline(Imported) \subseteq ValuesOf(Sources)
      BY <2>0 DEF Inline, Vars, ValuesOf
    <3> QED
      BY <3>1, ValuesAreValues
  <2> HIDE DEF All
  <2>2. PICK v \in First : WithInline(v, All) = NoSource
    BY <1>1, <2>0
  <2> DEFINE V == ({v} \ {NoSource}) \cup Inline(All)
  <2>3. V = {}
    <3>1. Agreed(V) = NoSource /\ NoSource \notin V
      BY <2>1, <2>2 DEF WithInline
    <3>2. /\ \A u \in V : V = {u} => Agreed(V) = u
          /\ (V # {} /\ \A u \in V : V # {u}) => Agreed(V) = Conflict
      BY AgreedIs
    <3> HIDE DEF V
    <3> QED
      BY <2>1, <3>1, <3>2
  <2>4. v = NoSource /\ Inline(All) = {}
    BY <2>3
  <2>5. ~own.var /\ NoSource \in Outcomes(Imported)
    BY <2>1, <2>4
  <2>6. Outcomes(Imported) = Possible(Vars(Imported), Inline(Imported))
    BY DEF Outcomes, Possible
  <2>7. Outcomes(Imported) = {NoSource}
    BY <2>1, <2>5, <2>6, PossibleIs
  <2>8. First = {NoSource}
    BY <2>5, <2>7
  <2> HIDE DEF First
  <2> QED
    BY <2>0, <2>2, <2>8
<1> QED
  BY <1>1 DEF FirstOffer

\* One more context: the first that has the variable keeps giving it.
LEMMA NextNearest ==
    ASSUME TypeOK, InputInv, infile \in Nearest(at), at < Len(ctx),
           infile = NoSource => \A d \in 1..at : ~OffersVar(d),
           NEW v, v = IF OffersVar(at + 1) /\ infile = NoSource
                      THEN VarOf(Context(at + 1)) ELSE infile
    PROVE  v \in Nearest(at + 1) /\ (v = NoSource => \A d \in 1..(at + 1) : ~OffersVar(d))
<1>0. at \in Nat /\ Len(ctx) \in Nat /\ DOMAIN ctx = 1..Len(ctx)
  BY DEF TypeOK
<1> DEFINE First(n) == {c \in 1..n : OffersVar(c) /\ \A d \in 1..(c - 1) : ~OffersVar(d)}
<1>f. \A n : FirstOffer(n) = {VarOf(Context(c)) : c \in First(n)}
  BY DEF FirstOffer
<1>n. \A c \in 1..Len(ctx) : VarOf(Context(c)) # NoSource
  <2>1. \A c \in 1..Len(ctx) : Context(c) \in Sources
    BY <1>0 DEF Sources, ContextIds
  <2> QED
    BY <2>1, ValuesAreValues DEF ValuesOf
<1>s. v = NoSource => \A d \in 1..(at + 1) : ~OffersVar(d)
  BY <1>0, <1>n
<1> SUFFICES v \in Nearest(at + 1)
  BY <1>s
<1>1. CASE NoSource \notin BeforeContexts
  <2>1. infile \in BeforeContexts /\ v = infile
    BY <1>1 DEF Nearest
  <2> QED
    BY <1>1, <2>1 DEF Nearest
<1>2. CASE NoSource \in BeforeContexts /\ First(at) # {}
  <2>1. PICK c \in First(at) : infile = VarOf(Context(c))
    BY <1>2, <1>f DEF Nearest
  <2>2. infile # NoSource
    BY <1>0, <1>n, <2>1
  <2>3. c \in First(at + 1)
    BY <1>0, <2>1
  <2> HIDE DEF First
  <2>4. infile \in FirstOffer(at + 1)
    BY <1>f, <2>1, <2>3
  <2> QED
    BY <1>2, <2>2, <2>4 DEF Nearest
<1>3. CASE NoSource \in BeforeContexts /\ First(at) = {}
  <2>1. infile = NoSource
    <3>1. FirstOffer(at) = {}
      BY <1>3, <1>f
    <3> QED
      BY <1>3, <3>1, BeforeType DEF Nearest
  <2>2. \A d \in 1..at : ~OffersVar(d)
    BY <2>1
  <2>3. CASE OffersVar(at + 1)
    <3>1. at + 1 \in First(at + 1)
      BY <1>0, <2>2, <2>3
    <3> HIDE DEF First
    <3>2. VarOf(Context(at + 1)) \in FirstOffer(at + 1)
      BY <1>f, <3>1
    <3> QED
      BY <1>3, <2>1, <2>3, <3>2 DEF Nearest
  <2>4. CASE ~OffersVar(at + 1)
    <3>1. First(at + 1) = {}
      BY <1>0, <2>2, <2>4
    <3>2. FirstOffer(at + 1) = {}
      BY <1>f, <3>1
    <3> QED
      BY <1>3, <2>1, <2>4, <3>2 DEF Nearest
  <2> QED
    BY <2>3, <2>4
<1> QED
  BY <1>1, <1>2, <1>3

\* What the text imports is reachable, and what reachable files import.
LEMMA ReachableClosed ==
    ASSUME TypeOK
    PROVE  /\ \A i \in DOMAIN own.imports : own.imports[i] \in Reachable(own.imports)
           /\ \A p \in Reachable(own.imports) :
                 p \in Paths /\ \A i \in DOMAIN lib[p].imports :
                                  lib[p].imports[i] \in Reachable(own.imports)
<1>1. ASSUME NEW i \in DOMAIN own.imports PROVE own.imports[i] \in Reachable(own.imports)
  <2>1. own.imports[i] \in Paths
    BY DEF TypeOK, AllShapes
  <2> QED
    BY <2>1 DEF Reachable, ClosedUnderImports
<1>2. ASSUME NEW p \in Reachable(own.imports), NEW i \in DOMAIN lib[p].imports
      PROVE  lib[p].imports[i] \in Reachable(own.imports)
  <2>1. p \in Paths
    BY DEF Reachable
  <2>2. lib[p].imports[i] \in Paths
    BY <2>1 DEF TypeOK, AllShapes
  <2>3. ASSUME NEW S \in SUBSET Paths, ClosedUnderImports(S, own.imports)
        PROVE  lib[p].imports[i] \in S
    <3>1. p \in S
      BY <2>3 DEF Reachable
    <3> QED
      BY <2>3, <3>1 DEF ClosedUnderImports
  <2> QED
    BY <2>2, <2>3 DEF Reachable
<1> QED
  BY <1>1, <1>2 DEF Reachable

\* Reading one import leaves only reachable files to be loaded.
LEMMA PendingReachable ==
    ASSUME TypeOK, LoadImport,
           \A k \in DOMAIN pending : pending[k].path \in Reachable(own.imports)
    PROVE  \A k \in DOMAIN pending' : pending'[k].path \in Reachable(own.imports)
<1> DEFINE p == Head(pending).path
           new == Nested(lib[p].imports, Head(pending).depth + 1)
<1>0. /\ pending # <<>> /\ pending \in Seq(Work) /\ Head(pending) = pending[1]
      /\ 1 \in DOMAIN pending
      /\ Tail(pending) \in Seq(Work)
      /\ \A k \in DOMAIN Tail(pending) :
            k + 1 \in DOMAIN pending /\ Tail(pending)[k] = pending[k + 1]
  BY NextImport DEF LoadImport, TypeOK, Work
<1>1. p \in Reachable(own.imports)
  BY <1>0
<1>2. new \in Seq(Work)
  <2>1. Head(pending).depth + 1 \in 1..(Depth + 1)
    BY <1>0, NextImport DEF LoadImport, ImportRaises, Work
  <2> QED
    BY <1>0, <2>1, NextImport, NestedWork
<1>3. \A k \in DOMAIN new : new[k].path \in Reachable(own.imports)
  BY <1>1, ReachableClosed DEF Nested
<1>4. pending' = new \o Tail(pending)
  BY DEF LoadImport
<1> HIDE DEF new
<1> SUFFICES ASSUME NEW k \in DOMAIN pending' PROVE pending'[k].path \in Reachable(own.imports)
  OBVIOUS
<1>5. CASE k \in DOMAIN new
  BY <1>0, <1>2, <1>3, <1>4, <1>5
<1>6. CASE k \notin DOMAIN new
  <2>1. k - Len(new) \in DOMAIN Tail(pending) /\ pending'[k] = Tail(pending)[k - Len(new)]
    BY <1>0, <1>2, <1>4, <1>6
  <2> QED
    BY <1>0, <2>1
<1> QED
  BY <1>5, <1>6

\* Every step keeps VarInv.
LEMMA VarStep ==
    TypeOK /\ InputInv /\ NothingYet /\ CompleteInv /\ VarInv /\ [Next]_vars => VarInv'
<1>u. TypeOK /\ [Next]_vars => own' = own /\ lib' = lib /\ ctx' = ctx
  BY Grows DEF input
<1>v. ASSUME TypeOK, [Next]_vars
      PROVE  /\ ContextImports' = ContextImports
             /\ Reachable(own.imports)' = Reachable(own.imports)
             /\ Imported' = Imported
             /\ \A c : OffersVar(c)' = OffersVar(c)
             /\ \A n : Nearest(n)' = Nearest(n)
             /\ \A S : Outcomes(S)' = Outcomes(S)
  <2>1. ContextImports' = ContextImports /\ \A c : OffersVar(c)' = OffersVar(c)
    BY <1>u, <1>v DEF ContextImports, ContextIds, OffersVar
  <2>2. Reachable(own.imports)' = Reachable(own.imports)
    BY <1>u, <1>v DEF Reachable, ClosedUnderImports
  <2>3. \A s : Shape(s)' = Shape(s)
    BY <1>u, <1>v DEF Shape
  <2>4. \A S : Inline(S)' = Inline(S) /\ Vars(S)' = Vars(S)
    BY <2>3 DEF Inline, Vars
  <2>5. \A S : Outcomes(S)' = Outcomes(S)
    BY <2>4 DEF Outcomes
  <2>6. Imported' = Imported
    BY <2>2 DEF Imported
  <2>7. BeforeContexts' = BeforeContexts
    BY <1>u, <1>v, <2>4, <2>5, <2>6 DEF BeforeContexts, WithInline, ContextIds
  <2>8. \A n : FirstOffer(n)' = FirstOffer(n)
    BY <2>1 DEF FirstOffer
  <2> QED
    BY <2>1, <2>2, <2>5, <2>6, <2>7, <2>8 DEF Nearest
<1> SUFFICES ASSUME TypeOK, InputInv, NothingYet, CompleteInv, VarInv, [Next]_vars, ~ContextImports
             PROVE  VarInv'
  BY <1>v DEF VarInv
<1> USE DEF input
<1> DEFINE Early ==
             /\ at = 0
             /\ \A k \in DOMAIN pending : pending[k].path \in Reachable(own.imports)
             /\ Loaded \ {Own} \subseteq Imported
             /\ infile \in Outcomes(Loaded \ {Own})
<1>a. /\ pc \in {"parse", "import", "validate"} => Early
      /\ pc \in {"context", "ready"} =>
            infile \in Nearest(at) /\ (infile = NoSource => \A d \in 1..at : ~OffersVar(d))
  BY DEF VarInv
<1>b. ASSUME pc' \in {"parse", "import", "validate"}, Early' PROVE VarInv'
  BY <1>b DEF VarInv
<1>c. ASSUME pc' \in {"context", "ready"}, infile' \in Nearest(at'),
             infile' = NoSource => \A d \in 1..at' : ~OffersVar(d)
      PROVE  VarInv'
  <2>1. Nearest(at)' = Nearest(at')
    BY <1>v DEF Nearest
  <2>2. infile' = NoSource => \A d \in 1..at' : ~OffersVar(d)'
    BY <1>c, <1>v
  <2> QED
    BY <1>c, <2>1, <2>2 DEF VarInv
<1>d. ASSUME pc' = "failed" PROVE VarInv'
  BY <1>d DEF VarInv
<1>1. CASE ParseOwn
  <2>1. pc = "parse" /\ at' = at /\ infile' = infile /\ Loaded = {}
    BY <1>1 DEF ParseOwn, NothingYet, Loaded
  <2>2. CASE pc' = "failed"
    BY <1>d, <2>2
  <2>3. CASE /\ pc' = "import" /\ pending' = Nested(own.imports, 1) /\ allhttps' = <<Own>>
    <3>1. \A k \in DOMAIN pending' : pending'[k].path \in Reachable(own.imports)
      BY <2>3, ReachableClosed DEF Nested
    <3>2. Loaded' \ {Own} = {} /\ Loaded \ {Own} = {}
      BY <2>1, <2>3 DEF Loaded
    <3>3. Early'
      BY <1>a, <1>u, <1>v, <2>1, <3>1, <3>2
    <3> QED
      BY <1>b, <2>3, <3>3
  <2> QED
    BY <1>1, <2>2, <2>3 DEF ParseOwn
<1>2. CASE LoadImport
  <2> DEFINE q == Head(pending).path
  <2>1. /\ pc = "import" /\ pc' = "import" /\ at' = at /\ pending # <<>>
        /\ allhttps' = Append(allhttps, File(q))
        /\ infile' = WithInline(WithVar(infile, File(q)), {File(q)})
    BY <1>2 DEF LoadImport
  <2>2. Early
    BY <1>a, <2>1
  <2>3. q \in Reachable(own.imports) /\ q \in Paths
    <3>1. pending \in Seq(Work) /\ 1 \in DOMAIN pending /\ Head(pending) = pending[1]
      BY <2>1 DEF TypeOK, Work
    <3> QED
      BY <2>2, <3>1 DEF Reachable
  <2>4. \A k \in DOMAIN pending' : pending'[k].path \in Reachable(own.imports)
    BY <1>2, <2>2, PendingReachable
  <2> HIDE DEF q
  <2>5. File(q) \in Sources /\ File(q) \in Imported /\ allhttps \in Seq(Sources)
    BY <2>3 DEF Sources, Imported, TypeOK
  <2>6. Loaded' \ {Own} = (Loaded \ {Own}) \cup {File(q)}
    BY <2>1, <2>5, SourcesDiffer DEF Loaded
  <2>7. Loaded \ {Own} \subseteq Sources
    BY <2>5 DEF Loaded
  <2>8. infile' \in Outcomes((Loaded \ {Own}) \cup {File(q)})
    BY <2>1, <2>2, <2>5, <2>7, OneMore
  <2>9. infile' \in Outcomes(Loaded \ {Own})'
    BY <1>v, <2>6, <2>8
  <2>10. Early'
    BY <1>u, <1>v, <2>1, <2>2, <2>4, <2>5, <2>6, <2>9
  <2> QED
    BY <1>b, <2>1, <2>10
<1>3. CASE ImportFails
  BY <1>3, <1>a, <1>d DEF ImportFails
<1>4. CASE ImportsDone
  <2>1. /\ pc = "import" /\ at = 0 /\ pc' = "validate"
        /\ UNCHANGED <<at, pending, allhttps, infile>>
    BY <1>4, <1>a DEF ImportsDone
  <2>2. Early'
    BY <1>a, <1>u, <1>v, <2>1 DEF Loaded
  <2> QED
    BY <1>b, <2>1, <2>2
<1>5. CASE Validate
  <2>1. pc = "validate" /\ at' = at /\ pc' \in {"failed", "context"}
    BY <1>5 DEF Validate
  <2>2. at = 0
    BY <1>a, <2>1
  <2>3. CASE pc' = "context"
    BY <1>5, <1>c, <2>1, <2>2, <2>3, ValidatedNearest
  <2> QED
    BY <1>d, <2>1, <2>3
<1>n. ASSUME at < Len(ctx), pc = "context", pc' = "context", at' = at + 1,
             infile' = IF OffersVar(at + 1) /\ infile = NoSource
                       THEN VarOf(Context(at + 1)) ELSE infile
      PROVE  VarInv'
  <2>1. /\ infile \in Nearest(at)
        /\ infile = NoSource => \A d \in 1..at : ~OffersVar(d)
    BY <1>a, <1>n
  <2>2. /\ infile' \in Nearest(at + 1)
        /\ infile' = NoSource => \A d \in 1..(at + 1) : ~OffersVar(d)
    BY <1>n, <2>1, NextNearest
  <2> QED
    BY <1>c, <1>n, <2>2
<1>6. CASE SkipContext
  <2>1. /\ pc = "context" /\ pc' = pc /\ at' = at + 1 /\ at < Len(ctx)
        /\ infile' = IF ctx[at + 1].kind = "var" THEN IfNone(at + 1) ELSE infile
        /\ ctx[at + 1].kind # "good"
    BY <1>6 DEF SkipContext
  <2>2. at + 1 \in 1..Len(ctx) /\ ctx[at + 1] \in AllShapes
    BY <2>1 DEF TypeOK
  <2>3. ctx[at + 1].kind = "var" <=> ctx[at + 1].kind # "syntax"
    BY <2>1, <2>2 DEF AllShapes
  <2>4. infile' = IF OffersVar(at + 1) /\ infile = NoSource
                  THEN VarOf(Context(at + 1)) ELSE infile
    BY <2>1, <2>3, Shapes DEF OffersVar, IfNone, WithVar
  <2> QED
    BY <1>n, <2>1, <2>4
<1>7. CASE MergeContext
  <2>1. /\ pc = "context" /\ at' = at + 1 /\ at < Len(ctx)
        /\ infile' = IfNone(at + 1) /\ ctx[at + 1].kind = "good"
    BY <1>7 DEF MergeContext
  <2>2. at + 1 \in ContextIds
    BY <2>1 DEF TypeOK, ContextIds
  <2>3. pc' = pc
    BY <1>7, <2>2 DEF MergeContext, ContextImports
  <2>4. infile' = IF OffersVar(at + 1) /\ infile = NoSource
                  THEN VarOf(Context(at + 1)) ELSE infile
    BY <2>1, Shapes DEF OffersVar, IfNone, WithVar
  <2> QED
    BY <1>n, <2>1, <2>3, <2>4
<1>8. CASE ContextsDone
  BY <1>8, <1>a, <1>c DEF ContextsDone
<1>9. CASE UNCHANGED vars
  <2>1. UNCHANGED <<pc, at, pending, allhttps, infile>>
    BY <1>9 DEF vars
  <2>2. Early => Early'
    BY <1>u, <1>v, <2>1 DEF Loaded
  <2>3. pc \in Places
    BY DEF TypeOK, Places
  <2> QED
    BY <1>a, <1>b, <1>c, <1>d, <2>1, <2>2, <2>3 DEF Places, Ended
<1> QED
  BY <1>1, <1>2, <1>3, <1>4, <1>5, <1>6, <1>7, <1>8, <1>9 DEF Next

\* Without imports in contexts, for any files and any number of contexts: the
\* text's own variable wins over those of its imports, a context's counts only
\* if nothing else gives the property, and a value given in a variable and
\* inline is a conflict (parse/__init__.py:235-247, 362-376;
\* basic_handlers.py:238, 246-247).
THEOREM NearestWins == Spec => []NearestVariableWins
<1>1. Init => InputInv /\ NothingYet /\ MergedInv /\ ImportInv /\ CompleteInv /\ VarInv
  <2> SUFFICES ASSUME Init
               PROVE  InputInv /\ NothingYet /\ MergedInv /\ ImportInv /\ CompleteInv /\ VarInv
    OBVIOUS
  <2>1. TypeOK /\ InputInv /\ NothingYet /\ MergedInv /\ ImportInv /\ CompleteInv
    BY TypeInit DEF Init, InputInv, NothingYet, MergedInv, ImportInv, CompleteInv, Loaded
  <2>2. Loaded \ {Own} = {} /\ infile = NoSource /\ pc = "parse" /\ at = 0 /\ pending = <<>>
    BY DEF Init, Loaded
  <2>3. Vars({}) = {} /\ Inline({}) = {}
    BY DEF Vars, Inline
  <2>4. Outcomes({}) = Possible({}, {})
    BY <2>3 DEF Outcomes, Possible
  <2>5. NoSource # Conflict
    BY <2>1, ValuesAreValues
  <2>6. Outcomes({}) = {NoSource}
    BY <2>4, <2>5, PossibleIs
  <2>7. infile \in Outcomes(Loaded \ {Own}) /\ Loaded \ {Own} \subseteq Imported
    BY <2>2, <2>6
  <2>8. \A k \in DOMAIN pending : pending[k].path \in Reachable(own.imports)
    BY <2>2
  <2>9. VarInv
    BY <2>2, <2>7, <2>8 DEF VarInv
  <2> QED
    BY <2>1, <2>9
<1>2. MergedInv /\ TypeOK /\ VarInv => NearestVariableWins
  BY DEF MergedInv, VarInv, NearestVariableWins
<1> QED
  BY <1>1, <1>2, TypeInit, TypeStep, InputStep, NothingYetStep, MergedStep, ImportStep,
     CompleteStep, VarStep, PTL DEF Spec
=============================================================================
