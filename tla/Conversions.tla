----------------------------- MODULE Conversions -----------------------------
(***************************************************************************)
(* What a loaded definition is turned into, and what is made of it again:  *)
(* the definition that is shown for what was sent (get_http_from_req and   *)
(* format_http), a Postman item (http2postman.py, postman2http.py), an     *)
(* HAR request (get_har, har2httphandler.py) and a curl command            *)
(* (CurlCompiler).  A definition that comes back as text is loaded again;  *)
(* origin keeps what it was made from.                                     *)
(*                                                                         *)
(* A JSON value is the text json.dumps writes for it, a form the text that *)
(* says it; names, descriptions and quoting are abstracted.                *)
(***************************************************************************)
EXTENDS Inheritance

CONSTANTS
    Empty,         \* the forms and JSON values that count as nothing
    Binary,        \* files that are no text
    JsonObjects,   \* texts that hold a JSON object
    JsonArrays,    \* texts that hold a JSON array
    JsonStrings,   \* texts that hold a JSON string, as that string
    Unquoted,      \* values that unquoting changes, as what it makes of them
    PostmanItems,  \* items of collections that Postman has exported
    HarRequests    \* requests of archives that browsers have exported

\* urllib.parse.unquote.
Unquote(value) == IF value \in DOMAIN Unquoted THEN Unquoted[value] ELSE value

UnquoteAll(values) == [i \in DOMAIN values |-> Unquote(values[i])]

\* What Postman and browsers write.  The data a browser has posted is a text
\* or one part.
Item ==
    [method : STRING, url : Url, query : Query, parsed : BOOLEAN, headers : Headers,
     auth : [kind : STRING, service : Optional(STRING), region : Optional(STRING)],
     body : [mode : {"none", "raw", "urlencoded", "file", "formdata_text", "formdata_file"},
             value : STRING, type : Optional(STRING)]]
HarRequest ==
    [method : STRING, url : Url, query : Query, headers : Headers,
     mimeType : STRING, text : STRING,
     param : Optional([value : STRING, type : Optional(STRING)])]

ASSUME ConversionsAssumption ==
    /\ {"content-type", "authorization"} \subseteq HeaderNames
    /\ \A text \in DOMAIN Dumped :
          Dumped[text] \in DOMAIN Guess /\ Dump(Dumped[text]) = Dumped[text]
    /\ "" \notin JsonObjects \cup JsonArrays \cup DOMAIN JsonStrings
    /\ \A text \in DOMAIN JsonStrings : JsonStrings[text] \in DOMAIN Guess
    /\ \A value \in DOMAIN Unquoted : Unquoted[value] \in STRING
    /\ \A item \in PostmanItems : item \in Item /\ item.body.value \in DOMAIN Guess
    /\ \A har \in HarRequests :
          /\ har \in HarRequest
          /\ har.text \in DOMAIN Guess
          /\ har.param # None => har.param.value \in DOMAIN Guess
    /\ {"", "{{host}}", "value"} \subseteq STRING

VARIABLES
    origin,  \* what a reloaded definition was made from, and how
    output   \* the document an export has produced

convVars == <<loading, origin, output>>

ContentType == "content-type"
Json == "application/json"
Form == "application/x-www-form-urlencoded"
NoAuth == [kind |-> "none", service |-> None, region |-> None]
NoPayload == [kind |-> "none", value |-> "", type |-> None]

\* What a definition has that names nothing but its url and its method.
Bare(url, method) ==
    [url |-> url, method |-> method, headers |-> [h \in HeaderNames |-> None],
     query |-> [k \in Keys |-> <<>>], extra_args |-> {}, named_args |-> FALSE,
     authwrap |-> None, timeout |-> None, retry |-> None, proxy |-> None,
     certificate |-> None, output |-> None, script_wrap |-> None,
     payload |-> NoPayload]

\* Python takes an empty text, an empty form and empty JSON for no payload.
Counts(p) ==
    CASE p.kind = "text" -> p.value # ""
      [] p.kind \in {"form", "json"} -> p.value \notin Empty
      [] OTHER -> p.kind # "none"

-----------------------------------------------------------------------------
\* get_prepared_request: what goes over the wire.  The content type of the
\* payload counts if no header names one.
Sent(def) ==
    LET p == def.payload IN
       [method |-> def.method, url |-> def.url, query |-> def.query, auth |-> def.auth,
        headers |-> [def.headers EXCEPT ![ContentType] = IF @ = None THEN p.header ELSE @],
        body |-> CASE p.kind \in {"text", "json"} -> <<"bytes", p.value>>
                   [] p.kind = "none" \/ (p.kind = "form" /\ ~Counts(p)) -> <<"bytes", "">>
                   [] p.kind = "file" \/ (p.kind = "form" /\ Counts(p)) -> <<p.kind, p.value>>
                   [] p.kind = "multi" -> <<"multi", p.value, p.part>>]

\* Wrong variant: parts of a multipart payload lose their type.
HttpFromReqUntyped(def) ==
    [Bare(def.url, def.method) EXCEPT
        !.headers = def.headers, !.query = def.query, !.authwrap = def.auth,
        !.payload = [kind |-> def.payload.kind, value |-> def.payload.value, type |-> None]]

\* get_http_from_req: the definition that stands for what was sent.  The type
\* of a text or a file is not kept, nor is JSON that counts as nothing.
HttpFromReq(def) ==
    LET p == def.payload IN
    [Bare(def.url, def.method) EXCEPT
        !.extra_args = {flag \in {"clear", "insecure"} : def[flag]},
        !.headers = def.headers,
        !.query = def.query,
        !.authwrap = def.auth,
        !.certificate = def.certificate,
        !.script_wrap = def.script,
        !.payload = IF p.kind = "json" /\ ~Counts(p) THEN NoPayload
                    ELSE [kind |-> p.kind, value |-> p.value, type |-> p.part]]

\* format_http and the parser: headers without a value are left out, and so is
\* a form or JSON that counts as nothing.
Formatted(http) ==
    [http EXCEPT
        !.headers = [h \in HeaderNames |-> IF @[h] = "" THEN None ELSE @[h]],
        !.extra_args = @ \ {"no_parent_script"},
        !.named_args = FALSE,
        !.payload = IF @.kind \in {"form", "json"} /\ ~Counts(@) THEN NoPayload ELSE @]

\* The certificate of an Azure principal is written in a form that cannot be
\* parsed; the scope of the Azure CLI is looked up where it is not; a part
\* needs a path.
FormatRaises(http) ==
    \/ http.authwrap # None /\ http.authwrap.kind \in {"azure_cert", "azure_cli"}
    \/ http.payload.kind = "multi" /\ http.payload.value = None

-----------------------------------------------------------------------------
\* get_http_to_postman_request.  The url is taken apart only if there are query
\* parameters.  JSON brings a header of its own.
PostmanRequest(def) ==
    LET p == def.payload
        json == p.kind = "json" /\ Counts(p)
    IN [method |-> def.method, url |-> def.url, query |-> def.query,
        parsed |-> \E k \in Keys : def.query[k] # <<>>,
        headers |-> [def.headers EXCEPT ![ContentType] = IF json THEN Json ELSE @],
        auth |-> IF def.auth = None THEN NoAuth ELSE def.auth,
        body |-> [mode |-> CASE p.kind = "form" -> "urlencoded"
                             [] json -> "raw"
                             [] p.kind = "file" -> "file"
                             [] p.kind = "text" /\ Counts(p) -> "raw"
                             [] p.kind = "multi" /\ p.value \in FilesThere -> "formdata_file"
                             [] p.kind = "multi" /\ p.value \notin FilesThere -> "formdata_text"
                             [] OTHER -> "none",
                  \* the name of a file is no src
                  value |-> IF p.kind = "multi" /\ p.value \in FilesThere THEN None ELSE p.value,
                  type |-> p.part]]

\* Wrong variant: a raw body is never JSON.
PostmanPayloadRaw(item) ==
    IF item.body.mode = "raw" THEN [kind |-> "text", value |-> item.body.value, type |-> None]
    ELSE NoPayload

\* A raw body is JSON if a header says so and it is an object or an array.
PostmanPayload(item) ==
    LET b == item.body
        json == /\ item.headers[ContentType] = Json
                /\ b.value \in JsonObjects \cup JsonArrays
    IN CASE b.mode \in {"formdata_file", "formdata_text"} ->
              [kind |-> "multi", value |-> b.value, type |-> b.type]
         [] b.mode = "file" -> [kind |-> "file", value |-> b.value, type |-> None]
         [] b.mode = "raw" -> [kind |-> IF json THEN "json" ELSE "text",
                               value |-> IF json THEN Dump(b.value) ELSE b.value,
                               type |-> None]
         [] b.mode = "urlencoded" /\ b.value \notin Empty ->
              [kind |-> "form", value |-> b.value, type |-> None]
         [] OTHER -> NoPayload

\* get_auth_wrap: keys and bearer tokens become a header or a parameter, the
\* id of a hawk key is looked up under another name than the export gives it.
PostmanAuth(auth) ==
    CASE auth.kind \in {"basic", "digest", "ntlm", "aws"} -> auth
      [] auth.kind = "hawk" -> [auth EXCEPT !.kind = "hawk_without_id"]
      [] OTHER -> None

\* import_leaf_item.  A url that was taken apart loses its port, and its path
\* gets a second slash.  The values of query parameters are unquoted.  Headers
\* come after what the authentication has set.
HttpFromPostman(item) ==
    [Bare(IF item.parsed
          THEN [host |-> IF item.url.host \in NoHost THEN <<"{{host}}">> ELSE item.url.host,
                port |-> None,
                path |-> IF item.url.path = <<>> THEN <<>> ELSE <<"">> \o item.url.path]
          ELSE item.url, item.method) EXCEPT
        !.headers = [h \in HeaderNames |->
            IF /\ item.headers[h] \in {None, ""}
               /\ h = "authorization"
               /\ item.auth.kind \in {"bearer", "apikey_header"}
            THEN item.auth.kind ELSE item.headers[h]],
        !.query = [k \in Keys |->
            (IF k = "key" /\ item.auth.kind = "apikey_query" THEN <<"value">> ELSE <<>>)
                \o UnquoteAll(item.query[k])],
        !.authwrap = PostmanAuth(item.auth),
        !.payload = PostmanPayload(item)]

-----------------------------------------------------------------------------
\* get_har: basic authentication and signatures become headers, no other.
\* A file that is no text is not told.
HarOf(def) ==
    LET p == def.payload
        auth == IF def.auth = None THEN "none" ELSE def.auth.kind
    IN [url |-> def.url, method |-> def.method, query |-> def.query,
        headers |->
            CASE auth = "basic" -> [def.headers EXCEPT !["authorization"] = auth]
              [] auth = "aws" -> [Sent(def).headers EXCEPT !["authorization"] = auth]
              [] OTHER -> def.headers,
        mimeType |-> IF Counts(p) THEN p.header ELSE None,
        text |-> CASE p.kind = "file" /\ p.value \in Binary -> "error"
                   [] ~Counts(p) -> ""
                   [] OTHER -> p.value]

\* JSON that is no object is kept as data, and only a string is data that a
\* definition shows; a text that is no JSON, said to be, ends the entry where
\* it is.
JsonPayload(text) ==
    CASE text \in JsonObjects /\ Dump(text) \notin Empty ->
           [kind |-> "json", value |-> Dump(text), type |-> None]
      [] text \in DOMAIN JsonStrings \ JsonObjects ->
           [kind |-> "text", value |-> JsonStrings[text], type |-> None]
      [] OTHER -> NoPayload

\* What from_har makes of what was posted: a text, or else parts.
HarPayload(har) ==
    CASE har.text = "" /\ har.param = None -> NoPayload
      [] har.text = "" /\ har.param # None ->
           [kind |-> "multi", value |-> har.param.value, type |-> har.param.type]
      [] har.text # "" /\ har.mimeType = Json -> JsonPayload(har.text)
      [] har.text # "" /\ har.mimeType = Form ->
           [kind |-> "form", value |-> har.text, type |-> None]
      [] OTHER -> [kind |-> "text", value |-> har.text, type |-> None]

\* Wrong variant: whatever is said to be JSON is kept as JSON.
HttpFromHarUnread(har) ==
    [Bare(har.url, har.method) EXCEPT
        !.headers = har.headers, !.query = har.query,
        !.payload = [kind |-> IF har.mimeType = Json THEN "json" ELSE "text",
                     value |-> har.text, type |-> None]]

\* from_har, of one request.
HttpFromHar(har) ==
    [Bare(har.url, har.method) EXCEPT
        !.headers = har.headers, !.query = har.query, !.payload = HarPayload(har)]

\* Wrong variant: the content type is left to curl.
CurlOfBare(def) ==
    [url |-> def.url, method |-> def.method, query |-> def.query, headers |-> def.headers,
     user |-> None, data |-> Sent(def).body]

\* get_curl_output: JSON, forms and texts bring their content type, files and
\* parts do not; NTLM, Hawk and Azure are left out.
CurlOf(def) ==
    LET p == def.payload
        auth == IF def.auth = None THEN "none" ELSE def.auth.kind
    IN [url |-> def.url, method |-> def.method, query |-> def.query,
        headers |-> [def.headers EXCEPT ![ContentType] =
                        IF @ = None /\ p.kind \in {"json", "form", "text"}
                        THEN p.header ELSE @],
        user |-> IF auth \in {"basic", "digest", "aws"} THEN auth ELSE None,
        data |-> Sent(def).body]

-----------------------------------------------------------------------------
\* readsFiles is false for the compiler that exports to Postman, and for what
\* comes from there.
ConvInit ==
    /\ readsFiles \in BOOLEAN
    /\ output = None
    /\ origin = None
    /\ \/ \E c \in Chains : StartsLoading(c)
       \/ /\ at = "import"
          /\ chain = <<>>
          /\ httpdef = NoHttpDef

\* What an import or a rendering has produced is formatted, and its text is
\* loaded, once.
LoadsAgain(http, via, from) ==
    /\ ~FormatRaises(http)
    /\ chain' = <<Formatted(http)>>
    /\ at' = "flags"
    /\ httpdef' = NoHttpDef
    /\ origin' = [via |-> via, from |-> from]
    /\ UNCHANGED <<readsFiles, output>>

Fails(http) ==
    /\ FormatRaises(http)
    /\ at' = "raised"
    /\ UNCHANGED <<chain, readsFiles, httpdef, origin, output>>

Loaded == at = "ready" /\ origin = None

Render ==
    /\ Loaded
    /\ readsFiles
    /\ \/ LoadsAgain(HttpFromReq(httpdef), "render", httpdef)
       \/ Fails(HttpFromReq(httpdef))

ThroughPostman ==
    /\ Loaded
    /\ ~readsFiles
    /\ LET http == HttpFromPostman(PostmanRequest(httpdef)) IN
          LoadsAgain(http, "postman", httpdef) \/ Fails(http)

ImportItem ==
    /\ at = "import"
    /\ ~readsFiles
    /\ \E item \in PostmanItems : LoadsAgain(HttpFromPostman(item), "item", item)

ImportHar ==
    /\ at = "import"
    /\ ~readsFiles
    /\ \E har \in HarRequests : LoadsAgain(HttpFromHar(har), "har", har)

Exports(document) ==
    /\ Loaded
    /\ readsFiles
    /\ output' = document
    /\ at' = "exported"
    /\ UNCHANGED <<chain, readsFiles, httpdef, origin>>

ExportHar == Exports([via |-> "har", document |-> HarOf(httpdef)])

ExportCurl == Exports([via |-> "curl", document |-> CurlOf(httpdef)])

Load == Loads /\ UNCHANGED <<origin, output>>

ConvNext == Load \/ Render \/ ThroughPostman \/ ImportItem \/ ImportHar
             \/ ExportHar \/ ExportCurl

ConvSpec == ConvInit /\ [][ConvNext]_convVars

-----------------------------------------------------------------------------
ConvTypeOK ==
    /\ chain \in Seq(Http)
    /\ readsFiles \in BOOLEAN
    /\ at \in {"import", "flags", "script", "method", "url", "headers", "query", "payload",
               "auth", "proxy", "timeout", "retry", "custom_proxy", "certificate",
               "output", "ready", "exported", "raised"}
    /\ at = "ready" => None \notin {httpdef.method, httpdef.url, httpdef.headers,
                                    httpdef.query, httpdef.payload}
    /\ origin = None \/ origin.via \in {"render", "postman", "item", "har"}
    /\ output = None \/ output.via \in {"har", "curl"}

Known(h) == {i \in DOMAIN chain : chain[i].headers[h] # None}

\* A definition gets from what it extends what that would itself have been
\* loaded with: a flag, a single attribute, the parameters before its own, a
\* url joined to the one its base has; and a header, unless definitions it
\* extends disagree about it (load_def's loaders, dothttp/parse/__init__.py:
\* 424-629, take some from the nearest and some from the farthest).
GetsWhatItsBaseHas ==
    at = "ready" /\ Len(chain) > 1 =>
        LET own == Head(chain)
            base == Tail(chain)
        IN /\ httpdef.url = WithScheme(JoinUrl(LoadedUrl(base), own.url))
           /\ httpdef.insecure <=> Flag(base, "insecure") \/ "insecure" \in own.extra_args
           /\ httpdef.timeout = LoadedTimeout(IF own.timeout # None THEN <<own>> ELSE base)
           /\ httpdef.proxy = CurrentOrBase(IF own.proxy # None THEN <<own>> ELSE base, "proxy")
           /\ "no_parent_script" \in own.extra_args => httpdef.script = own.script_wrap
           /\ \A k \in Keys : IsSuffix(own.query[k], httpdef.query[k])
           /\ \A h \in HeaderNames :
                 /\ own.headers[h] # None => httpdef.headers[h] = own.headers[h]
                 /\ \A i \in DOMAIN base : Known(h) = {i + 1} =>
                       httpdef.headers[h] = LoadedHeaders(base)[h]
                 /\ Known(h) = {} => httpdef.headers[h] = DefaultHeaders[h]

\* A request to an AWS host is signed for the service and the region that the
\* host names, whatever the author wrote, if they are known; and what was
\* signed for once is signed for again when it is read from the text that
\* shows it (dothttp/parse/__init__.py:799-888).
SignedForItsHost ==
    at = "ready" /\ httpdef.auth # None /\ httpdef.auth.kind = "aws" =>
        LET host == httpdef.url.host
            aws == AwsFromHost(httpdef.auth, host)
        IN /\ Len(host) >= 4 /\ SubSeq(host, Len(host) - 1, Len(host)) = <<"amazonaws", "com">> =>
                 /\ host[Len(host) - 3] \in KnownServices =>
                       httpdef.auth.service = host[Len(host) - 3]
                 /\ host[Len(host) - 2] \in KnownRegions =>
                       httpdef.auth.region = host[Len(host) - 2]
           /\ aws = [service |-> httpdef.auth.service, region |-> httpdef.auth.region]

\* What is lost on the way from what was sent to the definition that shows it.
TypeWasGiven(def) ==
    /\ def.payload.kind \in {"text", "file"}
    /\ def.headers[ContentType] = None
    /\ def.payload.header # Guess[def.payload.value]

ShowsAll(def) ==
    /\ ~TypeWasGiven(def)
    /\ Counts(def.payload) \/ def.payload.kind \in {"none", "text"}
    /\ \A h \in HeaderNames : def.headers[h] # ""

\* The definition that is shown for a request sends that request again, with
\* its flags, certificate and script: all of it, unless a type was given for a
\* text or a file, a header is empty, or a form or JSON is empty.  Its timeout,
\* its retries, its proxy and its output are not shown
\* (computed.py:214-325, request_base.py:269-463).
ShownSendsTheSame ==
    at = "ready" /\ origin # None =>
        (origin.via = "render" /\ ShowsAll(origin.from) =>
            /\ Sent(httpdef) = Sent(origin.from)
            /\ \A part \in {"clear", "insecure", "certificate", "script"} :
                  httpdef[part] = origin.from[part])

\* A definition that has been to Postman and back still sends its query, with
\* every value unquoted on the way; its body, unless a part is a file, which is
\* read as JSON and written again if a header says it is; and its
\* authentication, unless that needs a hawk id or Azure; its url too, unless
\* there are query parameters and it has no host or a port or a path
\* (http2postman.py:260-399, postman2http.py:121-357).
PostmanKeeps ==
    at = "ready" /\ origin # None =>
        (origin.via = "postman" =>
            LET def == origin.from
                body == def.payload.value
                parsed == \E k \in Keys : def.query[k] # <<>>
                bare == def.url.host \notin NoHost /\ def.url.port = None /\ def.url.path = <<>>
                json == /\ def.payload.kind = "text"
                        /\ def.headers[ContentType] = Json
                        /\ body \in JsonObjects \cup JsonArrays
            IN /\ Sent(httpdef).query = [k \in Keys |-> UnquoteAll(def.query[k])]
               /\ Counts(def.payload) /\ ~json => Sent(httpdef).body = Sent(def).body
               /\ json /\ Dump(body) \notin Empty =>
                      Sent(httpdef).body = <<"bytes", Dump(body)>>
               /\ (def.auth # None => def.auth.kind \in {"basic", "digest", "ntlm", "aws"}) =>
                      httpdef.auth = def.auth
               /\ ~parsed \/ bare => httpdef.url = def.url)

\* Of what an archive says is JSON, an object is sent as json.dumps writes it,
\* a string as the string it is, and nothing else; what it says is no JSON is
\* sent as it stands, and a part with its type.  A key or a token of a
\* collection is sent in a header unless the item has its own
\* (har2httphandler.py:26-87, postman2http.py:275-357).
ImportsSend ==
    at = "ready" /\ origin # None =>
        /\ origin.via = "har" =>
              LET har == origin.from
                  read == CASE har.text \in JsonObjects ->
                                 IF Dump(har.text) \in Empty THEN "" ELSE Dump(har.text)
                            [] har.text \in DOMAIN JsonStrings \ JsonObjects ->
                                 JsonStrings[har.text]
                            [] OTHER -> ""
              IN /\ har.text # "" /\ har.mimeType = Json =>
                       Sent(httpdef).body = <<"bytes", read>>
                 /\ har.text # "" /\ har.mimeType \notin {Json, Form} =>
                       Sent(httpdef).body = <<"bytes", har.text>>
                 /\ har.text = "" /\ har.param # None =>
                       Sent(httpdef).body =
                           <<"multi", har.param.value, Typed(har.param.type, har.param.value)>>
        /\ origin.via = "item" /\ origin.from.auth.kind \in {"bearer", "apikey_header"} =>
              httpdef.headers["authorization"] \in
                  {origin.from.auth.kind, origin.from.headers["authorization"]} \ {None, ""}

\* The curl command and the archive tell the content type and the signature a
\* request goes out with: curl for all but files, parts and the kinds of
\* authentication it is not given; an archive for what basic and AWS sign
\* (request_base.py:165-252, computed.py:98-212).
ExportsTellTheRequest ==
    output # None =>
        LET told == output.document
            sent == Sent(httpdef)
            auth == IF httpdef.auth = None THEN "none" ELSE httpdef.auth.kind
        IN /\ told.url = sent.url /\ told.query = sent.query /\ told.method = sent.method
           /\ output.via = "curl" /\ httpdef.payload.kind \notin {"file", "multi"} =>
                 told.headers[ContentType] = sent.headers[ContentType]
           /\ output.via = "har" /\ auth \in {"basic", "aws"} =>
                 told.headers["authorization"] = auth
           /\ output.via = "har" /\ told.text # "" =>
                 None \notin {told.mimeType, sent.headers[ContentType]}
=============================================================================
