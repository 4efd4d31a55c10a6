------------------------------ MODULE LoadModel ------------------------------
(***************************************************************************)
(* How a .http text, the files it imports and the contexts an editor sends *)
(* with it become one model (BaseModelProcessor.load, load_imports,        *)
(* load_properties_from_var, validate_names in dothttp/parse/__init__.py   *)
(* and ContentBase.select_target in basic_handlers.py:240-261).            *)
(*                                                                         *)
(* A source is the text itself, an importable file or a context.  One      *)
(* definition and one property are enough to ask who wins: a source may    *)
(* give the property in a var statement and in an inline {{x=...}}, the    *)
(* values of all sources differ, and none is empty.  allhttps is the       *)
(* sequence of the sources whose definitions it holds.                     *)
(***************************************************************************)
EXTENDS Integers, Sequences

CONSTANTS
    Paths,         \* what an import statement can name
    Inputs,        \* the texts, files and contexts to be loaded
    Depth,         \* how deep imports nest before Python raises RecursionError
    Names,         \* names of definitions
    NoName,        \* a definition without a name
    NoSource,      \* no value
    Conflict       \* the HttpFileException stored in the place of a value

\* "syntax": it does not parse (or the file is missing); "var": one of its
\* variables raises, after the one of the property if it has that.
AllShapes ==
    [kind : {"good", "syntax", "var"}, var : BOOLEAN, inline : BOOLEAN,
     name : Names \cup {NoName}, imports : Seq(Paths)]

\* The text, the file at each path and the contexts in their order.
InputType == [own : AllShapes, lib : [Paths -> AllShapes], ctx : Seq(AllShapes)]

Own == <<"own">>
File(p) == <<"file", p>>
Context(c) == <<"context", c>>

\* Every source there can be.
AllSources ==
    {Own} \cup {File(p) : p \in Paths}
        \cup {Context(c) : c \in UNION {DOMAIN i.ctx : i \in Inputs}}

\* The value source s gives in a var statement, and in its text.
VarOf(s) == <<"var", s>>
InlineOf(s) == <<"inline", s>>

ValuesOf(S) == {VarOf(s) : s \in S} \cup {InlineOf(s) : s \in S}

ASSUME LoadModelAssumption ==
    /\ Inputs \subseteq InputType
    /\ Depth \in Nat \ {0}
    /\ NoName \notin Names
    /\ NoSource \notin ValuesOf(AllSources)
    /\ Conflict \notin ValuesOf(AllSources) \cup {NoSource}

VARIABLES
    own,      \* the text
    lib,      \* lib[p]: the file at p
    ctx,      \* ctx[c]: the contexts
    pc,       \* where load is
    at,       \* the context being merged, 0 before the first
    pending,  \* imports still to be loaded, depth first
    imports,  \* model.import_list.filename
    allhttps, \* model.allhttps
    infile    \* infile_properties: the value of the property

vars == <<own, lib, ctx, pc, at, pending, imports, allhttps, infile>>

input == <<own, lib, ctx>>

Shape(s) ==
    CASE s = Own -> own
      [] s[1] = "file" -> lib[s[2]]
      [] s[1] = "context" -> ctx[s[2]]

NameOf(s) == Shape(s).name

ContextIds == DOMAIN ctx

Sources == {Own} \cup {File(p) : p \in Paths} \cup {Context(c) : c \in ContextIds}

\* What one value, or none, becomes where inline values are added to it: two
\* different ones are a conflict.
Agreed(V) ==
    IF V = {} THEN NoSource
    ELSE IF \E v \in V : V = {v} THEN CHOOSE v \in V : V = {v}
    ELSE Conflict

\* The inline values in a set of sources.
Inline(S) == {InlineOf(s) : s \in {s \in S : Shape(s).inline}}

\* add_infile_properties, over the texts of the sources S.
WithInline(value, S) == Agreed(({value} \ {NoSource}) \cup Inline(S))

\* load_properties_from_var of source s, which replaces what there is.
WithVar(value, s) == IF Shape(s).var THEN VarOf(s) ELSE value

\* The work an import list stands for: its files, nested n deep.
Nested(list, n) == [i \in DOMAIN list |-> [path |-> list[i], depth |-> n]]

-----------------------------------------------------------------------------
Init ==
    /\ \E i \in Inputs : own = i.own /\ lib = i.lib /\ ctx = i.ctx
    /\ pc = "parse"
    /\ at = 0
    /\ pending = <<>>
    /\ imports = <<>>
    /\ allhttps = <<>>
    /\ infile = NoSource

\* load_model, and the beginning of load_imports.
ParseOwn ==
    /\ pc = "parse"
    /\ IF own.kind = "syntax"
       THEN /\ pc' = "failed"
            /\ UNCHANGED <<pending, imports, allhttps>>
       ELSE /\ pc' = "import"
            /\ imports' = own.imports
            /\ pending' = Nested(own.imports, 1)
            /\ allhttps' = <<Own>>
    /\ UNCHANGED <<input, at, infile>>

\* Whether reading the next import raises: no such file or not parsable, or
\* nested too deep.
ImportRaises ==
    LET next == Head(pending) IN
    lib[next.path].kind = "syntax" \/ next.depth > Depth

\* Wrong variant: what a file imports is not followed.
LoadImportFlat ==
    LET p == Head(pending).path IN
    /\ pc = "import"
    /\ pending # <<>>
    /\ ~ImportRaises
    /\ lib[p].kind = "good"
    /\ allhttps' = Append(allhttps, File(p))
    /\ infile' = WithInline(WithVar(infile, File(p)), {File(p)})
    /\ pending' = Tail(pending)
    /\ UNCHANGED <<input, pc, at, imports>>

\* One import: its definitions are appended, its variable replaces whatever
\* value there is, its inline value is added, and its own imports come next.
LoadImport ==
    LET next == Head(pending)
        p == next.path IN
    /\ pc = "import"
    /\ pending # <<>>
    /\ ~ImportRaises
    /\ lib[p].kind = "good"
    /\ allhttps' = Append(allhttps, File(p))
    /\ infile' = WithInline(WithVar(infile, File(p)), {File(p)})
    /\ pending' = Nested(lib[p].imports, next.depth + 1) \o Tail(pending)
    /\ UNCHANGED <<input, pc, at, imports>>

\* Wrong variant: an import that fails is tried again.
RetryImport ==
    /\ pc = "import"
    /\ pending # <<>>
    /\ ImportRaises \/ lib[Head(pending).path].kind = "var"
    /\ UNCHANGED vars

\* An import raises: it cannot be read, or a variable of it raises, after its
\* definitions were appended and its other variables loaded.  In the text
\* itself the request ends there; in a context the exception is swallowed and
\* the next context follows.
ImportFails ==
    LET p == Head(pending).path IN
    /\ pc = "import"
    /\ pending # <<>>
    /\ ImportRaises \/ lib[p].kind = "var"
    /\ IF ImportRaises
       THEN UNCHANGED <<allhttps, infile>>
       ELSE /\ allhttps' = Append(allhttps, File(p))
            /\ infile' = WithVar(infile, File(p))
    /\ pc' = IF at = 0 THEN "failed" ELSE "context"
    /\ pending' = <<>>
    /\ UNCHANGED <<input, at, imports>>

ImportsDone ==
    /\ pc = "import"
    /\ pending = <<>>
    /\ pc' = IF at = 0 THEN "validate" ELSE "context"
    /\ UNCHANGED <<input, at, pending, imports, allhttps, infile>>

\* validate_names: no name twice in the text and its imports.
NamesClash ==
    \E i, j \in DOMAIN allhttps :
        i < j /\ NameOf(allhttps[i]) = NameOf(allhttps[j]) /\ NameOf(allhttps[i]) # NoName

\* Wrong variant: the text's variable does not replace an imported one.
ValidateGently ==
    /\ pc = "validate"
    /\ IF NamesClash \/ own.kind = "var"
       THEN pc' = "failed" /\ UNCHANGED infile
       ELSE /\ pc' = "context"
            /\ infile' = WithInline(IF infile = NoSource THEN WithVar(infile, Own) ELSE infile,
                                    {Own} \cup {Context(c) : c \in ContextIds})
    /\ UNCHANGED <<input, at, pending, imports, allhttps>>

\* validate_names and load_props_needed_for_content: the variable of the text
\* itself replaces an imported one; the inline values are those of the text
\* and of all contexts, which ContentBase.load_model has joined to it whether
\* they parse or not.
Validate ==
    /\ pc = "validate"
    /\ IF NamesClash \/ own.kind = "var"
       THEN pc' = "failed" /\ UNCHANGED infile
       ELSE /\ pc' = "context"
            /\ infile' = WithInline(WithVar(infile, Own),
                                    {Own} \cup {Context(c) : c \in ContextIds})
    /\ UNCHANGED <<input, at, pending, imports, allhttps>>

\* load_properties_from_var with can_override=False.
IfNone(c) == IF infile = NoSource THEN WithVar(infile, Context(c)) ELSE infile

\* A context that does not parse is left out; so is one whose variables
\* raise, but for those before.
SkipContext ==
    LET c == at + 1 IN
    /\ pc = "context"
    /\ at < Len(ctx)
    /\ ctx[c].kind # "good"
    /\ at' = c
    /\ infile' = IF ctx[c].kind = "var" THEN IfNone(c) ELSE infile
    /\ UNCHANGED <<input, pc, pending, imports, allhttps>>

\* Wrong variant: the definitions of a context come before all others.
MergeContextFirst ==
    LET c == at + 1 IN
    /\ pc = "context"
    /\ at < Len(ctx)
    /\ ctx[c].kind = "good"
    /\ at' = c
    /\ infile' = IfNone(c)
    /\ allhttps' = <<Context(c)>> \o allhttps
    /\ IF ctx[c].imports = <<>>
       THEN UNCHANGED <<pc, imports, pending>>
       ELSE /\ imports' = imports \o ctx[c].imports
            /\ pending' = Nested(imports', 1)
            /\ pc' = "import"
    /\ UNCHANGED input

\* A context adds its variable if there is none, its definition, and its
\* imports; with imports of its own, all imports so far are loaded again.
MergeContext ==
    LET c == at + 1 IN
    /\ pc = "context"
    /\ at < Len(ctx)
    /\ ctx[c].kind = "good"
    /\ at' = c
    /\ infile' = IfNone(c)
    /\ allhttps' = Append(allhttps, Context(c))
    /\ IF ctx[c].imports = <<>>
       THEN UNCHANGED <<pc, imports, pending>>
       ELSE /\ imports' = imports \o ctx[c].imports
            /\ pending' = Nested(imports', 1)
            /\ pc' = "import"
    /\ UNCHANGED input

ContextsDone ==
    /\ pc = "context"
    /\ at = Len(ctx)
    /\ pc' = "ready"
    /\ UNCHANGED <<input, at, pending, imports, allhttps, infile>>

Next ==
    \/ ParseOwn
    \/ LoadImport \/ ImportFails \/ ImportsDone
    \/ Validate
    \/ SkipContext \/ MergeContext \/ ContextsDone

Spec == Init /\ [][Next]_vars

\* The code is sequential and goes on until it returns or raises.
FairSpec == Spec /\ WF_vars(Next)

Ended == {"ready", "failed"}

-----------------------------------------------------------------------------
TypeOK ==
    /\ own \in AllShapes
    /\ lib \in [Paths -> AllShapes]
    /\ ctx \in Seq(AllShapes)
    /\ pc \in {"parse", "import", "validate", "context"} \cup Ended
    /\ at \in 0..Len(ctx)
    /\ pending \in Seq([path : Paths, depth : 1..(Depth + 1)])
    /\ imports \in Seq(Paths)
    /\ allhttps \in Seq(Sources)
    /\ infile \in ValuesOf(Sources) \cup {NoSource, Conflict}

\* Loading ends, also if files import each other: the recursion limit turns
\* a circle into an error (parse/__init__.py:274).
LoadEnds == <>(pc \in Ended)

Loaded == {allhttps[i] : i \in DOMAIN allhttps}

\* What is reachable from an import list.
ClosedUnderImports(S, list) ==
    /\ \A i \in DOMAIN list : list[i] \in S
    /\ \A p \in S : \A i \in DOMAIN lib[p].imports : lib[p].imports[i] \in S

Reachable(list) == {p \in Paths : \A S \in SUBSET Paths : ClosedUnderImports(S, list) => p \in S}

\* A text that is ready has the definitions of every file reachable from its
\* imports, nested ones included, and none of them was broken
\* (parse/__init__.py:241-247, 274).
ReadyHasImports ==
    pc = "ready" =>
        \A p \in Reachable(own.imports) : lib[p].kind = "good" /\ File(p) \in Loaded

\* Every context that is good itself contributes its definition, whatever is
\* wrong with the contexts before it (basic_handlers.py:256-259).
GoodContextsMerged ==
    pc = "ready" => \A c \in ContextIds : ctx[c].kind = "good" => Context(c) \in Loaded

\* A text is ready with all it depends on: its imports, or it is refused, and
\* its contexts but for the broken ones (parse/__init__.py:236-247,
\* basic_handlers.py:240-262).
ReadyIsWhole == ReadyHasImports /\ GoodContextsMerged

\* Name n selects the definition at i.
Selects(n, i) ==
    /\ i \in DOMAIN allhttps
    /\ NameOf(allhttps[i]) = n
    /\ \A j \in 1..(i - 1) : NameOf(allhttps[j]) # n

\* Merging contexts never changes what a name selects: whoever defined it
\* first keeps it (parse/__init__.py:335-342, basic_handlers.py:247;
\* test_content.py:127-160).
FirstDefinitionStays ==
    [][\A n \in Names : \A i \in DOMAIN allhttps :
          Selects(n, i) => Selects(n, i)' /\ allhttps'[i] = allhttps[i]]_vars

ContextImports == \E c \in ContextIds : ctx[c].imports # <<>>

\* Context c gives the property in a variable that is loaded, though the
\* context may be left out.
OffersVar(c) == ctx[c].kind # "syntax" /\ ctx[c].var

\* The variable of the first of n contexts that offers one.
FirstOffer(n) ==
    {VarOf(Context(c)) : c \in {c \in 1..n :
        OffersVar(c) /\ \A d \in 1..(c - 1) : ~OffersVar(d)}}

Vars(S) == {VarOf(s) : s \in {s \in S : Shape(s).var}}

\* What the files S may give, loaded in any order: the value if there is one
\* only, otherwise a variable that replaced the others, or a conflict.
Outcomes(S) ==
    LET V == Vars(S) \cup Inline(S)
    IN IF Agreed(V) # Conflict THEN {Agreed(V)} ELSE Vars(S) \cup {Conflict}

Imported == {File(p) : p \in Reachable(own.imports)}

\* What there may be before the contexts are merged: the text's own variable
\* or what its imports give, with the inline values beside it.
BeforeContexts ==
    {WithInline(v, {Own} \cup {Context(c) : c \in ContextIds}) :
        v \in IF own.var THEN {VarOf(Own)} ELSE Outcomes(Imported)}

\* After n of them: a context's variable instead of nothing.
Nearest(n) ==
    IF NoSource \in BeforeContexts /\ FirstOffer(n) # {} THEN FirstOffer(n) ELSE BeforeContexts

\* Without imports in contexts, the text's own variable wins over those of
\* its imports, and a context's variable counts only if nothing else gives
\* the property: then that of the first context that has one, be it a context
\* left out because a later variable of it raised.  A value that is given in
\* a variable and inline, anywhere in the text and the contexts, is a
\* conflict and never silently one of the two (parse/__init__.py:235-247,
\* 362-376; basic_handlers.py:238, 246-247; test_content.py:224-246).
NearestVariableWins == pc = "ready" /\ ~ContextImports => infile \in Nearest(Len(ctx))
=============================================================================
