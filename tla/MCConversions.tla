---------------------------- MODULE MCConversions ----------------------------
(* Chains of at most three definitions.  Each chain varies one thing, so    *)
(* that the loaders are told apart without taking their product; what one   *)
(* loader does with what another has loaded (the service of a signature and *)
(* the url, the content type and a header) is varied together.              *)
EXTENDS Conversions

MCHeaderNames == {"content-type", "authorization", "x-trace"}
MCKeys == {"key"}
MCServices == {"s3", "ec2"}
MCRegions == {"us-east-1", "eu-west-1"}
MCFiles == {"a.txt", "b.bin"}
MCBinary == {"b.bin"}
MCEmpty == {"{}"}
MCObjects == {"{}", "{1}", "{ }", "{ 1}"}
MCArrays == {"[1]"}
MCTypes == {"text/plain", "application/json"}
MCStrings == [text \in {"'hi'"} |-> "hi"]
MCDumped == [text \in {"{ }", "{ 1}"} |-> IF text = "{ }" THEN "{}" ELSE "{1}"]
MCUnquoted == [value \in {"%41"} |-> "A"]
MCTexts == {"", "hi", "'hi'", "[1]", "{1}", "{ 1}", "{}", "{ }"}
MCDefaults == [h \in MCHeaderNames |-> IF h = "x-trace" THEN "default" ELSE None]
MCGuess == [v \in MCTexts \cup MCFiles \cup {"gone.txt"} |->
                IF v = "b.bin" THEN "application/octet-stream" ELSE "text/plain"]

UrlAt(host, path) == [host |-> host, port |-> None, path |-> path]
Plain == Bare(UrlAt(<<"h">>, <<"a">>), "GET")

UpTo(S, n) == UNION {[1..m -> S] : m \in 1..n}

ChainsOf(S, n, Put(_, _)) ==
    {[i \in DOMAIN values |-> Put(Plain, values[i])] : values \in UpTo(S, n)}

Urls == {UrlAt(<<>>, <<>>), UrlAt(<<>>, <<"b">>), UrlAt(<<>>, <<"", "d">>),
         UrlAt(<<"h">>, <<>>), UrlAt(<<"k">>, <<"c">>)}

PutUrl(http, url) == [http EXCEPT !.url = url]
PutHeader(http, value) == [http EXCEPT !.headers["x-trace"] = value]
PutQuery(http, values) == [http EXCEPT !.query["key"] = values]
PutFlags(http, f) == [http EXCEPT !.extra_args = f.flags, !.script_wrap = f.script]
PutTimes(http, t) == [http EXCEPT !.timeout = t, !.proxy = t, !.output = t]
PutRetry(http, r) == [http EXCEPT !.retry = r]
PutCertificate(http, c) == [http EXCEPT !.certificate = c]
PutNamed(http, n) == [http EXCEPT !.named_args = n]
PutMethod(http, m) ==
    [http EXCEPT !.method = m.method, !.payload = [kind |-> m.kind, value |-> "{1}", type |-> None]]
PutAuth(http, a) == [http EXCEPT !.authwrap = a]

Flags == [flags : SUBSET {"clear", "insecure", "no_parent_script"}, script : {None, "s"}]
Methods == [method : {None, "PUT"}, kind : {"none", "text", "json"}]
Retries == {None, <<[param |-> "total", value |-> "3"], [param |-> "total", value |-> "bad"],
                    [param |-> "backoff_factor", value |-> "1"]>>,
            <<[param |-> "status_forcelist", value |-> "500"]>>}
Auths == [kind : {"basic", "digest", "ntlm", "hawk", "azure_sp", "azure_cert", "azure_cli",
                  "azure_device"}, service : {None}, region : {None}]
Aws == [kind : {"aws"}, service : {None, "s3", "ec2", "mine"},
        region : {None, "us-east-1", "eu-west-1", "moon"}]
AwsHosts ==
    {<<>>, <<"">>, <<"h">>} \cup
    {labels \o <<"amazonaws", "com">> :
        labels \in {<<>>, <<"s3">>, <<"mine">>, <<"s3-eu-west-1">>, <<"s3-moon">>,
                    <<"bucket", "s3">>, <<"s3", "eu-west-1">>, <<"bucket", "s3", "eu-west-1">>,
                    <<"mine", "eu-west-1">>, <<"ec2", "moon">>}}
MCLegacy == [l \in {"s3-eu-west-1", "s3-moon"} |->
                IF l = "s3-moon" THEN [service |-> "s3", region |-> "moon"]
                ELSE [service |-> "s3", region |-> "eu-west-1"]]

Payloads ==
    {NoPayload} \cup
    [kind : {"text"}, value : MCTexts, type : {None} \cup MCTypes] \cup
    [kind : {"form"}, value : {"{}", "{1}"}, type : {None}] \cup
    [kind : {"list"}, value : {"[1]"}, type : {None}] \cup
    [kind : {"json"}, value : {"{}", "{1}", "[1]"}, type : {None}] \cup
    [kind : {"file"}, value : MCFiles \cup {"gone.txt"}, type : {None, "text/plain"}] \cup
    [kind : {"multi"}, value : {"hi", "a.txt"}, type : {None} \cup MCTypes]

\* One definition: its payload, with a header about it or an authentication.
Sendable ==
    {<<[Plain EXCEPT !.payload = p, !.headers["content-type"] = t, !.query["key"] = q]>> :
        p \in Payloads, t \in {None, "", "application/json"}, q \in {<<>>, <<"1", "%41">>}}
    \cup {<<[Plain EXCEPT !.payload = p, !.authwrap = a]>> :
            p \in {NoPayload, [kind |-> "json", value |-> "{1}", type |-> None]}, a \in Auths}
    \cup {<<[Plain EXCEPT !.url = UrlAt(h, <<"a">>), !.authwrap = a]>> : h \in AwsHosts, a \in Aws}
    \cup {<<[Plain EXCEPT !.url = u, !.query["key"] = q]>> :
            u \in [host : {<<"h">>}, port : {None, "80"}, path : {<<>>, <<"a">>}]
                  \cup [host : {<<>>}, port : {None}, path : {<<>>, <<"a">>, <<"", "a">>}],
            q \in {<<>>, <<"1">>}}

MCChains ==
    Sendable \cup ChainsOf(Urls, 3, PutUrl)
    \cup ChainsOf({None, "", "x", "y"}, 3, PutHeader)
    \cup ChainsOf({<<>>, <<"1">>, <<"2", "3">>}, 3, PutQuery)
    \cup ChainsOf(Flags, 2, PutFlags)
    \cup ChainsOf({None, "bad", "1", "2"}, 3, PutTimes)
    \cup ChainsOf(Retries, 2, PutRetry)
    \cup ChainsOf({None, [kind |-> "cert", file |-> "c"], [kind |-> "p12", file |-> "d"]}, 2,
                  PutCertificate)
    \cup ChainsOf(BOOLEAN, 2, PutNamed)
    \cup ChainsOf({None} \cup Auths, 2, PutAuth)
    \cup ChainsOf(Methods, 2, PutMethod)

NoHeaders == [h \in MCHeaderNames |-> None]
NoQuery == [k \in MCKeys |-> <<>>]

MCItems ==
    [method : {"POST"}, url : {UrlAt(<<>>, <<"a">>), UrlAt(<<"h">>, <<"a">>)},
     query : {NoQuery, [k \in MCKeys |-> <<"%41">>]}, parsed : BOOLEAN,
     headers : {NoHeaders, [NoHeaders EXCEPT !["authorization"] = "own"],
                [NoHeaders EXCEPT !["authorization"] = ""],
                [NoHeaders EXCEPT !["content-type"] = "application/json"]},
     auth : [kind : {"none", "basic", "hawk", "bearer", "apikey_header", "apikey_query"},
             service : {None}, region : {None}],
     body : [mode : {"none", "raw"}, value : {"hi", "[1]", "{ 1}"}, type : {None}]
            \cup [mode : {"formdata_text", "file"}, value : {"a.txt"}, type : {None}]]

MCHars ==
    [method : {"POST"}, url : {UrlAt(<<"h">>, <<>>)}, headers : {NoHeaders}, query : {NoQuery},
     mimeType : {"application/json", "text/plain", "application/x-www-form-urlencoded",
                 "multipart/form-data"},
     text : MCTexts, param : {None, [value |-> "hi", type |-> None],
                               [value |-> "a.txt", type |-> "application/json"]}]
=============================================================================
