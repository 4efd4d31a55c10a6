----------------------------- MODULE MCLoadDef -----------------------------
(* Instances of LoadDef.  "h" stands for a name like HOST: the code takes   *)
(* the variable DOTHTTP_ENV_HOST for one of the property S, here "k".       *)
EXTENDS LoadDef

Names == [k |-> "k", h |-> "k"]

At(form, key, value) == [form |-> form, key |-> key, value |-> value, from |-> key]

\* var h = {{k}} and var h = k.
Copy(form) == [form |-> form, key |-> "h", value |-> "b", from |-> "k"]

UpTo2(S) == {<<>>} \cup {<<x>> : x \in S} \cup (S \X S)
UpTo3(S) == UpTo2(S) \cup (S \X S \X S)

\* The variables of a file are loaded before what else it mentions.
Ordered(text) ==
    \A i, j \in DOMAIN text :
        i < j /\ text[j].form \in {"var", "copy", "id"} => text[i].form \in {"var", "copy", "id"}

\* All ways to have the occurrences t in imported files and in the text.
Splits(t) ==
    {[imported |-> SubSeq(t, 1, n), text |-> SubSeq(t, n + 1, Len(t))] : n \in 0..Len(t)}

Sets(key, values) == [i \in DOMAIN values |-> [key |-> key, value |-> values[i]]]

\* All ways to mention k three times in a text, with any one other source.
Ways ==
    {At("bare", "k", Empty), At("random", "k", Empty), At("var", "k", "a")}
        \cup {At("default", "k", v) : v \in Values \cup {Empty}}
OneSource ==
    {[s \in Outside |-> {}]} \cup {[s \in Outside |-> IF s = t THEN {"k"} ELSE {}] : t \in Outside}
Request(split, given, parts, init, pre, insecure) ==
    [imported |-> split.imported, text |-> split.text, given |-> given, parts |-> parts,
     init |-> init, pre |-> pre, insecure |-> insecure]

Texts(S) == {x \in UNION {Splits(t) : t \in S} : Ordered(x.text)}

TextRequests ==
    {r \in {Request(x, given, parts, init, <<>>, FALSE) :
               x \in Texts(UpTo3(Ways)), given \in OneSource,
               parts \in {<<[kind |-> t, keys |-> {"k"}], [kind |-> "text", keys |-> {"k"}]>> :
                             t \in {"text", "json"}},
               init \in {<<>>, Sets("k", <<"a", "b">>)}} : Written(r)}

\* Two properties from any sources, in the same part or in two.
SourceRequests ==
    [imported : {<<>>},
     text : {<<At("bare", "h", Empty), At(f, "k", "a")>> : f \in {"bare", "default"}},
     given : [Outside -> SUBSET {"k", "h"}],
     parts : {<<[kind |-> "text", keys |-> {"k", "h"}], [kind |-> "json", keys |-> {"k"}]>>,
              <<[kind |-> "text", keys |-> {"k"}], [kind |-> "json", keys |-> {"h"}]>>},
     init : {<<>>, Sets("h", <<"a">>)}, pre : {<<>>, Sets("k", <<"b">>)},
     insecure : BOOLEAN]

\* A variable that uses a property, which is mentioned or given before or
\* after it, in an import or in the text, or from any one other source.
Uses == {At("bare", "k", Empty), At("default", "k", "a"), At("default", "k", "b"),
         Copy("copy"), Copy("id")}
VarSource ==
    {[s \in Outside |-> {}]} \cup
        {[s \in Outside |-> IF s = t THEN {key} ELSE {}] : t \in Outside, key \in {"k", "h"}}
Parts == {<<[kind |-> "text", keys |-> {"h"}]>>, <<[kind |-> "json", keys |-> {"k", "h"}]>>}
Last == <<At("bare", "k", Empty), At("bare", "h", Empty)>>
VarRequests ==
    {Request([imported |-> x.imported, text |-> x.text \o Last], given, parts, init, <<>>, TRUE) :
        x \in Texts(UpTo3(Uses)), given \in VarSource, parts \in Parts,
        init \in {<<>>, Sets("k", <<"a">>)}}

AllRequests == TextRequests \cup SourceRequests \cup VarRequests
=============================================================================
