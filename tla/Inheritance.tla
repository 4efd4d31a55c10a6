----------------------------- MODULE Inheritance -----------------------------
(***************************************************************************)
(* What a request gets from its definition and from the definitions it     *)
(* extends (HttpDefBase.load_def and its loaders, dothttp/parse/           *)
(* __init__.py:419-1014).                                                  *)
(*                                                                         *)
(* chain is the selected definition followed by parents_http, nearest      *)
(* first (see SelectTarget).  httpdef is what the loaders have filled in,  *)
(* one after the other; a loader that raises ends the request.  Values     *)
(* are those after substitution (see LoadDef).  A url is a host, a         *)
(* sequence of labels, maybe a port, and a path; one without a scheme has  *)
(* no host yet, and its path starts with "" if it starts with a slash.     *)
(* Other slashes at the seams and query strings inside urls are            *)
(* abstracted.                                                             *)
(***************************************************************************)
EXTENDS Integers, Sequences, SequencesExt

CONSTANTS
    None,            \* absent
    Chains,          \* the chains that load_def is called with
    HeaderNames,     \* names of headers, compared without case
    Keys,            \* keys of query parameters
    DefaultHeaders,  \* default_headers of the property file
    KnownServices,   \* AWS_SERVICES_LIST
    KnownRegions,    \* AWS_REGION_LIST
    LegacyParts,     \* labels like s3-us-east-1, as service and region
    FilesThere,      \* files that exist
    Guess,           \* the media type magic finds for a text or a file
    Dumped           \* texts with JSON that json.dumps writes otherwise

Optional(S) == S \cup {None}

Url == [host : Seq(STRING), port : Optional(STRING), path : Seq(STRING)]
Headers == [HeaderNames -> Optional(STRING)]
Query == [Keys -> Seq(STRING)]
Auth ==
    [kind : {"basic", "digest", "ntlm", "hawk", "hawk_without_id", "aws", "azure_sp",
             "azure_cert", "azure_cli", "azure_device"},
     service : Optional(STRING), region : Optional(STRING)]
Retry == Seq([param : {"total", "status_forcelist", "backoff_factor"}, value : STRING])
Certificate == [kind : {"cert", "p12"}, file : STRING]
Payload ==
    [kind : {"none", "text", "form", "list", "file", "json", "multi"},
     value : STRING, type : Optional(STRING)]

Body ==
    [kind : {"none", "text", "form", "file", "json", "multi"}, value : STRING,
     part : Optional(STRING), header : Optional(STRING)]

\* What the grammar builds for a definition.  Credentials go with the kind of
\* authentication, a multipart payload has one part.
Http ==
    [url : Url, method : Optional(STRING), headers : Headers, query : Query,
     extra_args : SUBSET {"clear", "insecure", "no_parent_script"},
     named_args : BOOLEAN, authwrap : Optional(Auth), timeout : Optional(STRING),
     retry : Optional(Retry), proxy : Optional(STRING),
     certificate : Optional(Certificate), output : Optional(STRING),
     script_wrap : Optional(STRING), payload : Payload]

\* What json.loads and json.dumps make of a text that holds JSON.
Dump(text) == IF text \in DOMAIN Dumped THEN Dumped[text] ELSE text

\* magic has a type for every text and every file, and a JSON value is the text
\* that json.dumps writes for it.
Readable(p) ==
    /\ p.kind \in {"text", "json", "multi"} => p.value \in DOMAIN Guess
    /\ p.kind = "json" => Dump(p.value) = p.value

ASSUME InheritanceAssumption ==
    /\ Chains \subseteq Seq(Http)
    /\ <<>> \notin Chains
    /\ \A c \in Chains : \A i \in DOMAIN c : Readable(c[i].payload)
    /\ DefaultHeaders \in Headers
    /\ FilesThere \subseteq DOMAIN Guess
    /\ \A v \in DOMAIN Guess : v \in STRING /\ Guess[v] \in STRING
    /\ \A name \in KnownServices \cup KnownRegions : name \in STRING
    /\ None \notin STRING \cup Url \cup Headers \cup Query \cup Auth \cup Body
    \* the provers do not know that what stands between quotes is a string
    /\ {"POST", "GET", "us-east-1", "application/x-www-form-urlencoded",
        "application/json", "multipart/form-data"} \subseteq STRING

VARIABLES
    chain,       \* http and parents_http
    readsFiles,  \* whether the compiler opens the file a payload names
    at,          \* the loader that comes next
    httpdef      \* what has been loaded

loading == <<chain, readsFiles, at, httpdef>>

-----------------------------------------------------------------------------
\* Wrong variant: the farthest definition is asked first.
FarthestOrCurrent(c, attr) ==
    LET having == {i \in DOMAIN c : c[i][attr] # None}
    IN IF having = {} THEN None ELSE c[CHOOSE i \in having : \A j \in having : i >= j][attr]

\* get_current_or_base: the attribute of the definition itself or of the
\* nearest definition it extends that has it.
CurrentOrBase(c, attr) ==
    LET having == {i \in DOMAIN c : c[i][attr] # None}
    IN IF having = {} THEN None ELSE c[CHOOSE i \in having : \A j \in having : i <= j][attr]

\* Headers and query parameters are taken from the extended definitions,
\* nearest first, and then from the definition itself.
LoadOrder(c) == Tail(c) \o <<Head(c)>>

\* A header that is written again replaces what was there.
LoadedHeaders(c) ==
    [h \in HeaderNames |->
        LET order == LoadOrder(c)
            having == {i \in DOMAIN order : order[i].headers[h] # None}
        IN IF having = {} THEN DefaultHeaders[h]
           ELSE order[CHOOSE i \in having : \A j \in having : i >= j].headers[h]]

\* A query parameter that is given again is added.
LoadedQuery(c) ==
    [k \in Keys |-> FlattenSeq([i \in DOMAIN c |-> LoadOrder(c)[i].query[k]])]

Relative(path) == IF path # <<>> /\ Head(path) = "" THEN Tail(path) ELSE path

\* One round of load_url: an empty url takes the base's, an absolute one is
\* kept, any other is joined to the base's after a slash, which is there even
\* if the base has no url.
JoinUrl(base, url) ==
    IF url.host = <<>> /\ url.path = <<>> THEN base
    ELSE IF url.host # <<>> THEN url
    ELSE [base EXCEPT !.path =
            (IF base.host = <<>> /\ @ = <<>> THEN <<"">> ELSE @) \o Relative(url.path)]

LoadedUrl(c) ==
    LET url[i \in DOMAIN c] == IF i = 1 THEN c[i].url ELSE JoinUrl(c[i].url, url[i - 1])
    IN url[Len(c)]

\* Where the host of a url stands nothing, or it has no scheme.
NoHost == {<<>>, <<"">>}

\* http:// is put before a url without a scheme: its first part is a host then,
\* the empty one if it starts with a slash.
WithScheme(url) ==
    IF url.host # <<>> \/ url.path = <<>> THEN url
    ELSE [url EXCEPT !.host = <<Head(url.path)>>, !.path = Tail(@)]

\* Flags hold for everything that extends the definition they are set on.
Flag(c, flag) == \E i \in DOMAIN c : flag \in c[i].extra_args

LoadedScript(c) ==
    IF "no_parent_script" \in Head(c).extra_args THEN Head(c).script_wrap
    ELSE CurrentOrBase(c, "script_wrap")

\* A request without a method is a POST if it has a payload of its own.
LoadedMethod(http) ==
    IF http.method # None THEN http.method
    ELSE IF http.payload.kind # "none" THEN "POST" ELSE "GET"

Typed(type, content) == IF type # None THEN type ELSE Guess[content]

\* _load_payload: the payload of the definition itself, never of a base.  A
\* compiler that only exports does not look at files (readsFiles).
LoadedPayload(p) ==
    [kind |-> p.kind, value |-> p.value,
     part |-> IF p.kind = "multi" THEN Typed(p.type, p.value) ELSE None,
     header |-> CASE p.kind = "none" \/ (p.kind = "file" /\ ~readsFiles) -> None
                  [] p.kind = "text" \/ (p.kind = "file" /\ readsFiles) ->
                        Typed(p.type, p.value)
                  [] p.kind = "form" -> "application/x-www-form-urlencoded"
                  [] p.kind = "json" -> "application/json"
                  [] p.kind = "multi" -> "multipart/form-data"]

\* A list is no form, and a file to send has to be there.
PayloadRaises(p) ==
    \/ p.kind = "list"
    \/ p.kind = "file" /\ readsFiles /\ p.value \notin FilesThere

-----------------------------------------------------------------------------
\* Wrong variant: the author's service wins over the one in the host.
AwsFromAuthor(auth, host) ==
    LET labels == SubSeq(host, 1, Len(host) - 2)
        service == IF auth.service # None \/ labels = <<>> THEN auth.service ELSE Head(labels)
        region == IF auth.region # None THEN auth.region ELSE "us-east-1"
    IN [service |-> service, region |-> region]

\* The service and region a request to <labels>.amazonaws.com is signed for.
\* With one label it is the service, and may hold the region too; with more,
\* known services and regions are taken from where they usually stand.
AwsFromHost(auth, host) ==
    LET labels == SubSeq(host, 1, Len(host) - 2)
        last == labels[Len(labels)]
        isAws == Len(host) > 2 /\ host[Len(host) - 1] = "amazonaws" /\ host[Len(host)] = "com"
        service1 == IF auth.service = None \/ last \in KnownServices
                    THEN last ELSE auth.service
        region1 == IF auth.region = None THEN "us-east-1" ELSE auth.region
        legacy == last \in DOMAIN LegacyParts
        before == labels[Len(labels) - 1]
        sent == CASE ~isAws -> [service |-> auth.service, region |-> auth.region]
                  [] isAws /\ Len(labels) = 1 ->
                        [service |-> IF legacy /\ LegacyParts[last].service \in KnownServices
                                     THEN LegacyParts[last].service ELSE service1,
                         region |-> IF legacy /\ LegacyParts[last].region \in KnownRegions
                                    THEN LegacyParts[last].region ELSE region1]
                  [] isAws /\ Len(labels) > 1 ->
                        [service |-> IF before \in KnownServices THEN before ELSE auth.service,
                         region |-> IF last \in KnownRegions THEN last ELSE auth.region]
    IN [sent EXCEPT !.region = IF @ = None THEN "us-east-1" ELSE @]

\* load_auth, once the url is there.
LoadedAuth(c, url) ==
    LET wrap == CurrentOrBase(c, "authwrap")
        aws == AwsFromHost(wrap, url.host)
    IN IF wrap # None /\ wrap.kind = "aws"
       THEN [wrap EXCEPT !.service = aws.service, !.region = aws.region]
       ELSE wrap

\* A device code is looked up in an attribute that does not exist; an AWS
\* request without a service cannot be signed, one without a host not even
\* be looked at.
AuthRaises(c, url) ==
    LET wrap == CurrentOrBase(c, "authwrap") IN
    /\ wrap # None
    /\ \/ wrap.kind = "azure_device"
       \/ wrap.kind = "aws" /\ url.host \in NoHost
       \/ wrap.kind = "aws" /\ LoadedAuth(c, url).service = None

\* load_retry goes through the parameters and stops at one that is no number.
LoadedRetry(c, param) ==
    LET retry == IF CurrentOrBase(c, "retry") = None THEN <<>> ELSE CurrentOrBase(c, "retry")
        read == {i \in DOMAIN retry : /\ retry[i].param = param
                                      /\ \A j \in 1..i : retry[j].value # "bad"}
    IN IF read = {} THEN None ELSE retry[CHOOSE i \in read : \A j \in read : i >= j].value

LoadedTimeout(c) ==
    IF CurrentOrBase(c, "timeout") = "bad" THEN None ELSE CurrentOrBase(c, "timeout")

-----------------------------------------------------------------------------
\* HttpDef(): nothing has been loaded.
NoHttpDef ==
    [clear |-> FALSE, insecure |-> FALSE, script |-> None, method |-> None,
     url |-> None, headers |-> None, query |-> None, payload |-> None, auth |-> None,
     timeout |-> None, total |-> None, status_forcelist |-> None,
     backoff_factor |-> None, proxy |-> None, certificate |-> None, output |-> None]

StartsLoading(c) == /\ chain = c
                    /\ at = "flags"
                    /\ httpdef = NoHttpDef

LoadsNext(here, next, loaded) ==
    /\ at = here
    /\ at' = next
    /\ httpdef' = loaded
    /\ UNCHANGED <<chain, readsFiles>>

Raises(here) ==
    /\ at = here
    /\ at' = "raised"
    /\ UNCHANGED <<chain, readsFiles, httpdef>>

LoadExtraFlags ==
    LoadsNext("flags", "script",
        [httpdef EXCEPT !.clear = Flag(chain, "clear"),
                        !.insecure = Flag(chain, "insecure")])

LoadTestScript ==
    LoadsNext("script", "method", [httpdef EXCEPT !.script = LoadedScript(chain)])

LoadMethod ==
    LoadsNext("method", "url", [httpdef EXCEPT !.method = LoadedMethod(Head(chain))])

\* Wrong variant: load_headers is not called.
LoadUrlOnly ==
    LoadsNext("url", "query", [httpdef EXCEPT !.url = WithScheme(LoadedUrl(chain))])

LoadUrl ==
    LoadsNext("url", "headers", [httpdef EXCEPT !.url = WithScheme(LoadedUrl(chain))])

LoadHeaders ==
    LoadsNext("headers", "query", [httpdef EXCEPT !.headers = LoadedHeaders(chain)])

LoadQuery ==
    LoadsNext("query", "payload", [httpdef EXCEPT !.query = LoadedQuery(chain)])

LoadPayload ==
    /\ at = "payload" /\ ~PayloadRaises(Head(chain).payload)
    /\ LoadsNext("payload", "auth",
           [httpdef EXCEPT !.payload = LoadedPayload(Head(chain).payload)])

PayloadRefused == at = "payload" /\ PayloadRaises(Head(chain).payload) /\ Raises("payload")

LoadAuth ==
    /\ at = "auth" /\ ~AuthRaises(chain, httpdef.url)
    /\ LoadsNext("auth", "proxy", [httpdef EXCEPT !.auth = LoadedAuth(chain, httpdef.url)])

AuthRefused == at = "auth" /\ AuthRaises(chain, httpdef.url) /\ Raises("auth")

\* load_proxy hands over its dict and the properties in the wrong order: it
\* cannot load the http.proxy of any definition.
LoadProxy ==
    /\ \A i \in DOMAIN chain : ~chain[i].named_args
    /\ LoadsNext("proxy", "timeout", httpdef)

ProxyRefused == (\E i \in DOMAIN chain : chain[i].named_args) /\ Raises("proxy")

LoadTimeout ==
    LoadsNext("timeout", "retry", [httpdef EXCEPT !.timeout = LoadedTimeout(chain)])

LoadRetry ==
    LoadsNext("retry", "custom_proxy",
        [httpdef EXCEPT !.total = LoadedRetry(chain, "total"),
                        !.status_forcelist = LoadedRetry(chain, "status_forcelist"),
                        !.backoff_factor = LoadedRetry(chain, "backoff_factor")])

LoadCustomProxy ==
    LoadsNext("custom_proxy", "certificate",
        [httpdef EXCEPT !.proxy = CurrentOrBase(chain, "proxy")])

LoadCertificate ==
    LoadsNext("certificate", "output",
        [httpdef EXCEPT !.certificate = CurrentOrBase(chain, "certificate")])

LoadOutput ==
    LoadsNext("output", "ready", [httpdef EXCEPT !.output = Head(chain).output])

Loads ==
    \/ LoadExtraFlags \/ LoadTestScript \/ LoadMethod \/ LoadUrl \/ LoadHeaders
    \/ LoadQuery \/ LoadPayload \/ PayloadRefused \/ LoadAuth \/ AuthRefused
    \/ LoadProxy \/ ProxyRefused \/ LoadTimeout \/ LoadRetry \/ LoadCustomProxy
    \/ LoadCertificate \/ LoadOutput

=============================================================================
