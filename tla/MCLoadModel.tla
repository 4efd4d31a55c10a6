---------------------------- MODULE MCLoadModel ----------------------------
(* Instances of LoadModel: what texts, files and contexts are like.         *)
EXTENDS LoadModel

CONSTANTS f, g, n

Shapes(kinds, inlines, names, lists) ==
    [kind : kinds, var : BOOLEAN, inline : inlines, name : names, imports : lists]

AnyName == Names \cup {NoName}
NoInline == {FALSE}

Lists0 == {<<>>}
Lists1 == {<<>>} \cup {<<p>> : p \in Paths}
Lists2 == Lists1 \cup {<<p, q>> : p, q \in Paths}

\* Where the kind decides, the rest is not varied.
Bad(kinds) == Shapes(kinds, NoInline, {NoName}, Lists0)

Input(owns, files, contexts) == [own : owns, lib : [Paths -> files], ctx : contexts]

\* Without contexts: two files that import each other in any way.
ImportFiles == Shapes({"good"}, NoInline, AnyName, Lists2) \cup Bad({"syntax", "var"})
ImportInputs == Input(ImportFiles, ImportFiles, {<<>>})

\* Two contexts; files that import nothing.
LeafFiles == Shapes({"good"}, NoInline, AnyName, Lists0) \cup Bad({"syntax", "var"})
AnyContext == Shapes({"good"}, NoInline, AnyName, Lists1) \cup Bad({"syntax", "var"})
ContextInputs ==
    Input(Shapes({"good"}, NoInline, AnyName, Lists1), LeafFiles, AnyContext \X AnyContext)

\* Inline values anywhere: files that import each other, or two contexts,
\* which may be broken.
Unnamed(kinds, lists) == Shapes(kinds, BOOLEAN, {NoName}, lists)
InlineInputs ==
    Input(Unnamed({"good"}, Lists1), Unnamed({"good"}, Lists1), {<<>>}) \cup
    Input(Unnamed({"good"}, {<<>>, <<f>>}), Unnamed({"good"}, Lists0),
          Unnamed({"good", "syntax", "var"}, Lists0) \X Unnamed({"good", "var"}, Lists0))

AllInputs == ImportInputs \cup ContextInputs \cup InlineInputs
=============================================================================
