------------------------------ MODULE LoadDef ------------------------------
(***************************************************************************)
(* The properties of one request, from the scan of its text to what is     *)
(* sent (PropertyProvider in dothttp/utils/property_util.py, load and      *)
(* load_def in dothttp/parse/__init__.py, dsl_jsonparser.py, scripts in    *)
(* dothttp/script/js3py.py, get_request_result in basic_handlers.py).      *)
(*                                                                         *)
(* A property may be given in the text ({{k}}, {{k=v}}, {{k=$randomInt}},  *)
(* var k = v), by the user, the property file, the environment of the      *)
(* process, a system command of the property file, and by the init script. *)
(* A variable may use another property, as {{y}} ("copy") or as a bare     *)
(* identifier ("id"): it is evaluated while the text is loaded.            *)
(* The value of an outside source is the name of the source.  A part is an *)
(* attribute of the request with the properties it uses; "text" parts go   *)
(* through BaseModelProcessor, "json" parts use the provider directly.     *)
(***************************************************************************)
EXTENDS Integers, Sequences

CONSTANTS
    Keys,        \* names of properties
    Values,      \* values written in the text or set by scripts
    Draws,       \* what $randomStr and the like may produce
    Empty,       \* the empty default of {{k=}}
    NoValue,     \* Python's None
    Conflict,    \* the HttpFileException stored in the place of a value
    Literal,     \* what becomes of a part left as it is written
    NoKey,
    Stripped,    \* Stripped[k]: key.strip("DOTHTTP_ENV_") of k's variable
    Requests     \* the requests to look at

Outside == {"user", "file", "os", "command"}

\* value: what is written after the =; from: the property a variable uses,
\* where it uses one.
Occurrence ==
    [form : {"bare", "random", "default", "var", "copy", "id"}, key : Keys,
     value : Values \cup {Empty}, from : Keys]

Part == [kind : {"text", "json"}, keys : SUBSET Keys]

\* imported, text: the occurrences of the imported files and of the text, in
\* the order they are loaded; given[s]: what source s gives; init, pre: what
\* the scripts set, one after the other.
Setting == [key : Keys, value : Values]

RequestType ==
    [imported : Seq(Occurrence), text : Seq(Occurrence), given : [Outside -> SUBSET Keys],
     parts : Seq(Part), init : Seq(Setting), pre : Seq(Setting), insecure : BOOLEAN]

Specials == {Empty, NoValue, Conflict}

\* What a property can be replaced with.
AllValues == Values \cup Draws \cup Outside \cup {"disabled", Empty, NoValue}

\* From occurrence n on, request r mentions k in double braces.
Mentions(r, n, k) ==
    \E j \in DOMAIN (r.imported \o r.text) :
        LET x == (r.imported \o r.text)[j] IN
        j >= n /\ x.key = k /\ x.form \in {"bare", "random", "default"}

\* What a part uses is mentioned, and so, after the variables of a file, is
\* what a {{y}} of a variable uses.
Written(r) ==
    /\ \A i \in DOMAIN r.parts : \A k \in r.parts[i].keys : Mentions(r, 1, k)
    /\ \A i \in DOMAIN (r.imported \o r.text) :
          LET x == (r.imported \o r.text)[i] IN x.form = "copy" => Mentions(r, i, x.from)

ASSUME LoadDefAssumption ==
    /\ Requests \subseteq RequestType
    /\ \A r \in Requests : Written(r)
    /\ Stripped \in [Keys -> Keys \cup {NoKey}]
    /\ NoKey \notin Keys
    /\ NoValue \notin Values \cup Draws \cup Outside \cup {"disabled", Empty}
    /\ Conflict \notin AllValues
    /\ Empty \notin Values \cup Draws
    /\ Outside \cap (Values \cup Draws \cup {Empty}) = {}
    /\ \A S \in SUBSET Keys : Literal \notin [S -> AllValues]

VARIABLES
    request,  \* the request
    pc,       \* where load_def and its caller are
    todo,     \* what is left of the text, the script or the parts
    infile,   \* infile[k]: infile_properties[k].value
    seen,     \* the keys of infile_properties
    line,     \* line[k]: command_line_properties
    updated,  \* updated[k]: what scripts set, reported to the editor
    filled,   \* filled[i]: what became of part i
    errors    \* the keys in property_util.errors

vars == <<request, pc, todo, infile, seen, line, updated, filled, errors>>

scanned == <<infile, seen>>
result == <<filled, errors>>

Reading == {"import", "scan"}

\* All occurrences.
Text == request.imported \o request.text

Given(s, k) == k \in request.given[s]

\* The property file and its commands are read after the imports.
Offered(s, k) == Given(s, k) /\ (s = "os" \/ pc # "import")

-----------------------------------------------------------------------------
Init ==
    /\ request \in Requests
    /\ pc = "import"
    /\ todo = request.imported
    /\ infile = [k \in Keys |-> NoValue]
    /\ seen = {}
    /\ line = [k \in Keys |-> NoValue]
    /\ updated = [k \in Keys |-> NoValue]
    /\ filled = <<>>
    /\ errors = {}

\* resolve_system_command_prop; load_def enables commands.
CommandOutput(k) ==
    IF ~Offered("command", k) THEN NoValue
    ELSE IF request.insecure /\ pc \notin Reading THEN "command" ELSE "disabled"

\* find_according_to_category of resolve_property_string.
Offers(k) ==
    << line[k],
       IF Offered("file", k) THEN "file" ELSE NoValue,
       infile[k],
       IF Offered("os", k) THEN "os" ELSE NoValue,
       CommandOutput(k) >>

\* The first of them that is not None; it may be the Conflict, which is
\* raised, and None if there is none.
Value(k) ==
    IF \A i \in 1..5 : Offers(k)[i] = NoValue THEN NoValue
    ELSE Offers(k)[CHOOSE i \in 1..5 :
            Offers(k)[i] # NoValue /\ \A j \in 1..(i - 1) : Offers(k)[j] = NoValue]

\* Wrong variant: a value is tested for truth.
AvailableIfTrue ==
    {k \in Keys : \/ line[k] # NoValue \/ infile[k] \notin {NoValue, Empty}
                  \/ Offered("file", k) \/ Offered("command", k)}
        \cup {Stripped[k] : k \in request.given["os"]}

\* available_properties_list.
Available ==
    {k \in Keys : \/ line[k] # NoValue \/ infile[k] # NoValue
                  \/ Offered("file", k) \/ Offered("command", k)}
        \cup {Stripped[k] : k \in request.given["os"]}

\* The next occurrence is loaded and has key k and one of these forms.
Loading(forms, k) ==
    /\ pc \in Reading
    /\ todo # <<>>
    /\ Head(todo).form \in forms
    /\ Head(todo).key = k
    /\ todo' = Tail(todo)
    /\ seen' = seen \cup {k}
    /\ UNCHANGED <<request, line, updated, filled>>

LoadBare(k) == Loading({"bare"}, k) /\ UNCHANGED <<pc, infile, errors>>

\* add_infile_property_from_var, which may override.
LoadVar(k) ==
    /\ Loading({"var"}, k)
    /\ infile' = [infile EXCEPT ![k] = Head(todo).value]
    /\ UNCHANGED <<pc, errors>>

\* An interpolated or indexed variable that lacks something raises.
VarRaises ==
    /\ pc \in Reading
    /\ todo # <<>>
    /\ Head(todo).form = "var"
    /\ pc' = "raised"
    /\ UNCHANGED <<request, todo, infile, seen, line, updated, filled, errors>>

\* Asking for y raises: its value is the Conflict, or infile_properties is
\* indexed with a key it has not got yet, when only the environment or a
\* command has it.
AskingRaises(y) ==
    \/ Value(y) = Conflict
    \/ y \notin seen /\ line[y] = NoValue /\ ~Offered("file", y)

\* get_updated_obj_content: the variable becomes what its property is now.
CopyValue(k) ==
    LET y == Head(todo).from IN
    /\ Loading({"copy", "id"}, k)
    /\ y \in Available /\ ~AskingRaises(y)
    /\ infile' = [infile EXCEPT ![k] = Value(y)]
    /\ UNCHANGED <<pc, errors>>

\* Wrong variant: a variable that misses its property is not an error.
MissValueQuietly(k) ==
    /\ Loading({"copy", "id"}, k)
    /\ Head(todo).from \notin Available
    /\ infile' = [infile EXCEPT ![k] = Head(todo).value]
    /\ UNCHANGED <<pc, errors>>

\* The property is missing so far: the error is remembered, and the variable
\* stays as it is written.
MissValue(k) ==
    LET y == Head(todo).from IN
    /\ Loading({"copy", "id"}, k)
    /\ y \notin Available
    /\ infile' = [infile EXCEPT ![k] = Head(todo).value]
    /\ errors' = errors \cup {y}
    /\ UNCHANGED pc

\* An identifier swallows what is raised and stays as it is written; a {{y}}
\* does not.
CopyRaises(k) ==
    LET y == Head(todo).from IN
    /\ Loading({"copy", "id"}, k)
    /\ y \in Available /\ AskingRaises(y)
    /\ IF Head(todo).form = "id"
       THEN infile' = [infile EXCEPT ![k] = Head(todo).value] /\ UNCHANGED pc
       ELSE pc' = "raised" /\ UNCHANGED infile
    /\ UNCHANGED errors

\* The value of a default that is not random, after another occurrence.
Merged(old, new) ==
    IF old \in {NoValue, Empty, new} THEN new ELSE Conflict

\* Wrong variant: the last default wins.
LoadDefaultLast(k) ==
    /\ Loading({"default"}, k)
    /\ infile' = [infile EXCEPT ![k] = Head(todo).value]
    /\ UNCHANGED <<pc, errors>>

LoadDefault(k) ==
    /\ Loading({"default"}, k)
    /\ infile' = [infile EXCEPT
            ![k] = IF k \in seen THEN Merged(@, Head(todo).value) ELSE Head(todo).value]
    /\ UNCHANGED <<pc, errors>>

\* A random default counts only for a key that has not been seen.
LoadRandom(k) ==
    /\ Loading({"random"}, k)
    /\ IF k \in seen
       THEN UNCHANGED infile
       ELSE \E d \in Draws : infile' = [infile EXCEPT ![k] = d]
    /\ UNCHANGED <<pc, errors>>

\* load_properties_n_headers and load_command_line_props, between the imports
\* and the text itself.
ImportsDone ==
    /\ pc = "import"
    /\ todo = <<>>
    /\ pc' = "scan"
    /\ todo' = request.text
    /\ line' = [k \in Keys |-> IF Given("user", k) THEN "user" ELSE NoValue]
    /\ UNCHANGED <<request, scanned, updated, result>>

\* load_def begins; load_test_script finds the script.
ScanDone ==
    /\ pc = "scan"
    /\ todo = <<>>
    /\ pc' = "init"
    /\ todo' = request.init
    /\ UNCHANGED <<request, scanned, line, updated, result>>

\* A script calls client.properties.set.
ScriptSets ==
    /\ pc \in {"init", "pre"}
    /\ todo # <<>>
    /\ updated' = [updated EXCEPT ![Head(todo).key] = Head(todo).value]
    /\ todo' = Tail(todo)
    /\ UNCHANGED <<request, pc, scanned, line, result>>

\* A script, init or pre, raises: PreRequestScriptException.
ScriptRaises ==
    /\ pc \in {"init", "pre"}
    /\ pc' = "raised"
    /\ UNCHANGED <<request, todo, scanned, line, updated, result>>

\* run_prerequest_script adds what the init functions set to the properties
\* of the command line.
InitDone ==
    /\ pc = "init"
    /\ todo = <<>>
    /\ pc' = "fill"
    /\ line' = [k \in Keys |-> IF updated[k] # NoValue THEN updated[k] ELSE line[k]]
    /\ todo' = request.parts
    /\ UNCHANGED <<request, scanned, updated, result>>

\* check_properties_for_content.
Missing(part) == part.keys \ Available

Conflicting(part) == \E k \in part.keys : Value(k) = Conflict

\* get_updated_content of a part with everything it needs.
FillPart ==
    LET part == Head(todo) IN
    /\ pc = "fill"
    /\ todo # <<>>
    /\ Missing(part) = {} /\ ~Conflicting(part)
    /\ filled' = Append(filled, [k \in part.keys |-> Value(k)])
    /\ todo' = Tail(todo)
    /\ UNCHANGED <<request, pc, scanned, line, updated, errors>>

\* PropertyNotFoundException is caught where it is raised and remembered; the
\* part stays as it is.
MissPart ==
    LET part == Head(todo) IN
    /\ pc = "fill"
    /\ todo # <<>>
    /\ Missing(part) # {}
    /\ errors' = errors \cup Missing(part)
    /\ filled' = Append(filled, Literal)
    /\ todo' = Tail(todo)
    /\ UNCHANGED <<request, pc, scanned, line, updated>>

\* HttpFileException: BaseModelProcessor.get_updated_content keeps it in a
\* list of its own and goes on with the part as it is; from json it goes up.
ConflictInPart ==
    LET part == Head(todo) IN
    /\ pc = "fill"
    /\ todo # <<>>
    /\ Missing(part) = {} /\ Conflicting(part)
    /\ IF part.kind = "text"
       THEN /\ filled' = Append(filled, Literal)
            /\ todo' = Tail(todo)
            /\ UNCHANGED pc
       ELSE /\ pc' = "raised"
            /\ UNCHANGED <<filled, todo>>
    /\ UNCHANGED <<request, scanned, line, updated, errors>>

\* _loaded is set and the pre functions begin.
PartsDone ==
    /\ pc = "fill"
    /\ todo = <<>>
    /\ pc' = "pre"
    /\ todo' = request.pre
    /\ UNCHANGED <<request, scanned, line, updated, result>>

\* run and get_request_result: a request with errors is reported, any other
\* is sent.
Send ==
    /\ pc = "pre"
    /\ todo = <<>>
    /\ pc' = IF errors = {} THEN "sent" ELSE "reported"
    /\ UNCHANGED <<request, todo, scanned, line, updated, result>>

Next ==
    \/ \E k \in Keys :
          \/ LoadBare(k) \/ LoadVar(k) \/ LoadDefault(k) \/ LoadRandom(k)
          \/ CopyValue(k) \/ MissValue(k) \/ CopyRaises(k)
    \/ VarRaises
    \/ ImportsDone \/ ScanDone
    \/ ScriptSets \/ ScriptRaises \/ InitDone
    \/ FillPart \/ MissPart \/ ConflictInPart \/ PartsDone
    \/ Send

Spec == Init /\ [][Next]_vars

-----------------------------------------------------------------------------
TypeOK ==
    /\ request \in Requests
    /\ pc \in Reading \cup {"init", "fill", "pre", "sent", "reported", "raised"}
    /\ pc \in Reading => todo \in Seq(Occurrence)
    /\ pc \in {"init", "pre"} => todo \in Seq(Setting)
    /\ pc = "fill" => todo \in Seq(Part)
    /\ infile \in [Keys -> AllValues \cup {Conflict}]
    /\ seen \subseteq Keys
    /\ \A k \in Keys \ seen : infile[k] = NoValue
    /\ line \in [Keys -> Values \cup {"user", NoValue}]
    /\ updated \in [Keys -> Values \cup {NoValue}]
    /\ errors \subseteq Keys
    /\ Len(filled) =
          CASE pc = "fill" -> Len(request.parts) - Len(todo)
            [] pc \in {"pre", "sent", "reported"} -> Len(request.parts)
            [] OTHER -> Len(filled)
    /\ \A i \in DOMAIN filled :
          filled[i] = Literal \/ filled[i] \in [request.parts[i].keys -> AllValues]

\* The forms in which the text has k, and its defaults.
Forms(k) == {Text[i].form : i \in {i \in DOMAIN Text : Text[i].key = k}}
Defaults(k) ==
    {Text[i].value : i \in {i \in DOMAIN Text : Text[i].key = k /\ Text[i].form = "default"}}

\* The environment has a variable whose name the code takes for k.
Mistaken(k) == \E h \in request.given["os"] : h # k /\ Stripped[h] = k

\* Occurrence i is a variable that uses a property.
Copies(i) == Text[i].form \in {"copy", "id"}

\* It is one of the text itself, not of an import.
IsOwn(i) == i > Len(request.imported)

\* Anybody so far, when occurrence i is loaded, mentions or gives what it
\* uses: an occurrence before, the environment, or, for the text itself, the
\* user, the property file or a command.
Known(i) ==
    LET y == Text[i].from IN
    \/ \E j \in 1..(i - 1) : Text[j].key = y
    \/ \E h \in request.given["os"] : Stripped[h] = y
    \/ IsOwn(i) /\ \E s \in {"user", "file", "command"} : Given(s, y)

\* No request is sent with a property that nobody gives, whatever becomes of
\* the parts around it: all parts have their values, but for those that use a
\* property with conflicting defaults, and for "None" in the place of a
\* property whose name is mistaken; and no variable was evaluated when nobody
\* knew the property it uses (property_util.py:241-258, 384-399;
\* dsl_jsonparser.py:36-46; basic_handlers.py:127).
SentIsValued ==
    pc = "sent" =>
        /\ \A i \in DOMAIN filled :
              IF filled[i] = Literal
              THEN \E k \in request.parts[i].keys : infile[k] = Conflict
              ELSE \A k \in request.parts[i].keys : filled[i][k] = NoValue => Mistaken(k)
        /\ \A i \in DOMAIN Text : Copies(i) => Known(i)

\* The first n occurrences give k no value: it is only mentioned, or has a
\* random default that is not the first to mention it.  Or a variable made it
\* None, copying a property whose name is mistaken.
NotInText(n, k) ==
    \/ \A j \in 1..n : Text[j].key = k =>
          \/ Text[j].form = "bare"
          \/ Text[j].form = "random" /\ \E h \in 1..(j - 1) : Text[h].key = k
    \/ \E j \in 1..n : Text[j].key = k /\ Copies(j) /\ Mistaken(Text[j].from)

NotOutside(k) == \A s \in {"user", "file", "command"} : ~Given(s, k)

NotInEnvironment(k) == Given("os", k) => Stripped[k] # k

\* k was missing when variable i was evaluated: what comes later, be it the
\* rest of the text, the init script or, for an imported variable, the user
\* and the property file, is of no use to it.
MissingToVar(i, k) ==
    /\ Copies(i) /\ Text[i].from = k
    /\ NotInText(i - 1, k)
    /\ IsOwn(i) => NotOutside(k)
    /\ NotInEnvironment(k)

\* k was missing when the parts were filled.
MissingToPart(k) ==
    /\ \A i \in DOMAIN request.init : request.init[i].key # k
    /\ NotInText(Len(Text), k)
    /\ NotOutside(k)
    /\ NotInEnvironment(k)

\* What is reported missing was missing where it was needed.  A part misses
\* what neither the script nor the user nor the property file nor the text
\* gives; a variable misses what was not given before it.  Exceptions are the
\* code's: a random default that is not the first occurrence of its property,
\* and a variable of the environment whose name is mangled (property_util.py:
\* 210-224, 256-258, 294-303; dsl_jsonparser.py:36-46;
\* parse/__init__.py:245-247, 373-376).
ReportedIsMissing ==
    \A k \in errors : MissingToPart(k) \/ \E i \in DOMAIN Text : MissingToVar(i, k)

\* The value k is set to by the init script, if it sets it.
SetByInit(k) == {i \in DOMAIN request.init : request.init[i].key = k}
LastSet(k) == CHOOSE i \in SetByInit(k) : \A j \in SetByInit(k) : j <= i

\* Every part gets the value of the first source that gives one: what the
\* init script set last, the user, the property file, the text, the
\* environment, a command.  The text gives a value only if its defaults agree,
\* in whatever order they come, and a random one is the same in every part
\* (parse/__init__.py:89, test_substitution.py:155, property_util.py:384-401).
SourcesInOrder ==
    \A i \in DOMAIN filled : filled[i] # Literal =>
        \A k \in request.parts[i].keys :
            LET v == filled[i][k] IN
            /\ \A j \in DOMAIN filled :
                  (filled[j] # Literal /\ k \in request.parts[j].keys) => filled[j][k] = v
            /\ IF SetByInit(k) # {} THEN v = request.init[LastSet(k)].value
               ELSE IF Given("user", k) THEN v = "user"
               ELSE IF Given("file", k) THEN v = "file"
               ELSE IF Forms(k) \subseteq {"bare", "default"} /\ Defaults(k) # {}
               THEN Defaults(k) \subseteq {v, Empty}
               ELSE IF Forms(k) = {"random"} THEN v \in Draws
               ELSE IF Forms(k) \subseteq {"bare"} /\ Given("os", k) THEN v = "os"
               ELSE Forms(k) \cap {"copy", "id"} = {} => v \notin {"user", "file"}
=============================================================================
