-------------------------- MODULE Definitions_proofs --------------------------
(***************************************************************************)
(* Proofs about definitions: what is loaded of one and what that is turned *)
(* into (Inheritance, Conversions), for chains of any length and any       *)
(* values; and how one is found (SelectTarget, TypeFromPos), for files of  *)
(* any length, any names, and texts laid out in any way.                   *)
(***************************************************************************)
EXTENDS TypeFromPos, Conversions, WellFoundedInduction, TLAPS

\* A non-empty set of natural numbers has a least element.
LEMMA LeastElement ==
    ASSUME NEW S \in SUBSET Nat, S # {}
    PROVE  \E k \in S : \A j \in S : k <= j
<1> DEFINE R == {p \in Nat \X Nat : p[1] < p[2]}
<1>1. IsWellFoundedOn(R, Nat)
  BY NatLessThanWellFounded, Zenon DEF OpToRel
<1> HIDE DEF R
<1>2. \E k \in S : \A j \in S : ~ (<<j, k>> \in R)
  BY <1>1, WFMin, Zenon
<1>3. PICK k \in S : \A j \in S : ~ (<<j, k>> \in R)
  BY <1>2
<1>4. \A j \in S : ~ (j < k)
  BY <1>3 DEF R
<1> QED
  BY <1>4

-----------------------------------------------------------------------------
\* A chain that load_def may be called with.
Chain(c) == c \in Seq(Http) /\ c # <<>> /\ \A i \in DOMAIN c : Readable(c[i].payload)

\* None is none of the values a definition has.
LEMMA NoneGiven ==
    None \notin STRING /\ None \notin Url /\ None \notin Headers /\ None \notin Query
        /\ None \notin Auth /\ None \notin Body
BY InheritanceAssumption DEF InheritanceAssumption

\* What the constants hold: files have a guessed type, and so have texts.
LEMMA GuessGiven ==
    /\ FilesThere \subseteq DOMAIN Guess
    /\ \A v \in DOMAIN Guess : v \in STRING /\ Guess[v] \in STRING
    /\ DefaultHeaders \in Headers
    /\ \A name \in KnownServices \cup KnownRegions : name \in STRING
BY InheritanceAssumption DEF InheritanceAssumption

\* The texts that the code writes itself.
LEMMA LiteralsGiven ==
    /\ "POST" \in STRING /\ "GET" \in STRING /\ "us-east-1" \in STRING
    /\ "application/x-www-form-urlencoded" \in STRING
    /\ "application/json" \in STRING /\ "multipart/form-data" \in STRING
    /\ "" \in STRING /\ "{{host}}" \in STRING /\ "value" \in STRING
BY InheritanceAssumption, ConversionsAssumption DEF InheritanceAssumption, ConversionsAssumption

\* load_def is called with chains.
LEMMA ChainsGiven ==
    ASSUME NEW c \in Chains
    PROVE  Chain(c)
BY InheritanceAssumption DEF InheritanceAssumption, Chain

\* The definition itself and those it extends.
LEMMA ChainHead ==
    ASSUME NEW c, Chain(c)
    PROVE  /\ Len(c) \in Nat \ {0} /\ DOMAIN c = 1..Len(c)
           /\ Head(c) = c[1] /\ Head(c) \in Http /\ Readable(Head(c).payload)
           /\ \A i \in 1..Len(c) : c[i] \in Http
           /\ Tail(c) \in Seq(Http) /\ Len(Tail(c)) = Len(c) - 1
           /\ \A i \in 1..Len(c) - 1 : Tail(c)[i] = c[i + 1]
BY DEF Chain

\* The chain of a definition that extends nothing.
LEMMA ChainOne ==
    ASSUME NEW h \in Http, Readable(h.payload)
    PROVE  /\ Chain(<<h>>) /\ Head(<<h>>) = h /\ Tail(<<h>>) = <<>> /\ Len(<<h>>) = 1
           /\ DOMAIN <<h>> = {1} /\ <<h>>[1] = h
BY DEF Chain

-----------------------------------------------------------------------------
\* An attribute is that of one of the definitions, or none has it.
LEMMA CurrentOrBaseOf ==
    ASSUME NEW c, Chain(c), NEW attr
    PROVE  \/ CurrentOrBase(c, attr) = None /\ \A i \in DOMAIN c : c[i][attr] = None
           \/ \E i \in DOMAIN c : /\ CurrentOrBase(c, attr) = c[i][attr] /\ c[i][attr] # None
                                  /\ \A j \in DOMAIN c : c[j][attr] # None => i <= j
<1> DEFINE having == {i \in DOMAIN c : c[i][attr] # None}
<1>1. CASE having = {}
  BY <1>1 DEF CurrentOrBase
<1>2. CASE having # {}
  <2>1. having \in SUBSET Nat
    BY ChainHead
  <2>2. \E i \in having : \A j \in having : i <= j
    <3> HIDE DEF having
    <3> QED
      BY <1>2, <2>1, LeastElement
  <2> DEFINE i == CHOOSE i \in having : \A j \in having : i <= j
  <2>3. i \in having /\ \A j \in having : i <= j
    BY <2>2
  <2>4. CurrentOrBase(c, attr) = c[i][attr]
    BY <1>2 DEF CurrentOrBase
  <2> HIDE DEF i
  <2> QED
    BY <2>3, <2>4
<1> QED
  BY <1>1, <1>2

\* What extends nothing has its own attributes.
LEMMA CurrentOrBaseOne ==
    ASSUME NEW h \in Http, Readable(h.payload), NEW attr
    PROVE  CurrentOrBase(<<h>>, attr) = h[attr]
BY ChainOne, CurrentOrBaseOf

\* The types of what get_current_or_base returns.
LEMMA CurrentOrBaseTypes ==
    ASSUME NEW c, Chain(c)
    PROVE  /\ CurrentOrBase(c, "authwrap") \in Optional(Auth)
           /\ CurrentOrBase(c, "timeout") \in Optional(STRING)
           /\ CurrentOrBase(c, "proxy") \in Optional(STRING)
           /\ CurrentOrBase(c, "certificate") \in Optional(Certificate)
           /\ CurrentOrBase(c, "script_wrap") \in Optional(STRING)
<1>1. \A i \in DOMAIN c : /\ c[i]["authwrap"] \in Optional(Auth)
                          /\ c[i]["timeout"] \in Optional(STRING)
                          /\ c[i]["proxy"] \in Optional(STRING)
                          /\ c[i]["certificate"] \in Optional(Certificate)
                          /\ c[i]["script_wrap"] \in Optional(STRING)
  BY ChainHead DEF Http
<1> QED
  BY <1>1, CurrentOrBaseOf DEF Optional

\* A script is text or absent.
LEMMA ScriptType ==
    ASSUME NEW c, Chain(c)
    PROVE  LoadedScript(c) \in Optional(STRING)
BY ChainHead, CurrentOrBaseTypes DEF LoadedScript, Http

\* A request always has a method.
LEMMA MethodType ==
    ASSUME NEW c, Chain(c)
    PROVE  LoadedMethod(Head(c)) \in STRING
<1> DEFINE h == Head(c)
<1>1. h.method \in Optional(STRING)
  BY ChainHead DEF Http
<1> HIDE DEF h
<1>2. CASE h.method # None
  <2>1. LoadedMethod(h) = h.method
    BY <1>2 DEF LoadedMethod
  <2> QED
    BY <1>1, <1>2, <2>1 DEF Optional, h
<1>3. CASE h.method = None
  <2>1. LoadedMethod(h) = "POST" \/ LoadedMethod(h) = "GET"
    BY <1>3 DEF LoadedMethod
  <2> QED
    BY <2>1, LiteralsGiven DEF h
<1> QED
  BY <1>2, <1>3

\* load_headers reads every definition once.
LEMMA OrderOf ==
    ASSUME NEW c, Chain(c)
    PROVE  /\ LoadOrder(c) \in Seq(Http) /\ DOMAIN LoadOrder(c) = 1..Len(c)
           /\ Len(LoadOrder(c)) = Len(c)
           /\ LoadOrder(c)[Len(c)] = c[1]
           /\ \A i \in 1..Len(c) - 1 : LoadOrder(c)[i] = c[i + 1]
<1>1. /\ Len(c) \in Nat \ {0} /\ Tail(c) \in Seq(Http) /\ Len(Tail(c)) = Len(c) - 1
      /\ Head(c) = c[1] /\ Head(c) \in Http
      /\ \A i \in 1..Len(c) - 1 : Tail(c)[i] = c[i + 1]
  BY ChainHead
<1> DEFINE t == Tail(c)
           h == Head(c)
           o == t \o <<h>>
<1> HIDE DEF t, h
<1>2. t \in Seq(Http) /\ <<h>> \in Seq(Http) /\ Len(<<h>>) = 1 /\ <<h>>[1] = h
  BY <1>1 DEF t, h
<1>3. /\ o \in Seq(Http) /\ Len(o) = Len(t) + 1 /\ DOMAIN o = 1..Len(t) + 1
      /\ o[Len(t) + 1] = h /\ \A i \in 1..Len(t) : o[i] = t[i]
  BY <1>2
<1>4. Len(t) = Len(c) - 1 /\ Len(t) + 1 = Len(c)
  BY <1>1 DEF t
<1>5. LoadOrder(c) = o
  BY DEF LoadOrder, t, h
<1> HIDE DEF o
<1> QED
  BY <1>1, <1>3, <1>4, <1>5 DEF t, h

\* A header has the value of the last definition that names it, read in that
\* order, or the default.
LEMMA HeaderOf ==
    ASSUME NEW c, Chain(c), NEW h \in HeaderNames
    PROVE  \/ /\ \A i \in DOMAIN c : c[i].headers[h] = None
              /\ LoadedHeaders(c)[h] = DefaultHeaders[h]
           \/ \E i \in 1..Len(c) :
                 LET o == LoadOrder(c) IN
                 /\ o[i].headers[h] # None /\ LoadedHeaders(c)[h] = o[i].headers[h]
                 /\ \A j \in 1..Len(c) : o[j].headers[h] # None => i >= j
<1> DEFINE o == LoadOrder(c)
           having == {i \in DOMAIN o : o[i].headers[h] # None}
<1>0. /\ DOMAIN o = 1..Len(c) /\ Len(c) \in Nat \ {0} /\ DOMAIN c = 1..Len(c)
      /\ o[Len(c)] = c[1] /\ \A i \in 1..Len(c) - 1 : o[i] = c[i + 1]
  BY OrderOf, ChainHead
<1>1. LoadedHeaders(c)[h] = IF having = {} THEN DefaultHeaders[h]
                            ELSE o[CHOOSE i \in having : \A j \in having : i >= j].headers[h]
  BY DEF LoadedHeaders
<1> HIDE DEF o
<1>2. CASE having = {}
  <2>1. \A i \in 1..Len(c) : o[i].headers[h] = None
    BY <1>0, <1>2
  <2>2. ASSUME NEW i \in DOMAIN c
        PROVE  c[i].headers[h] = None
    <3>1. CASE i = 1
      BY <1>0, <2>1, <3>1
    <3>2. CASE i # 1
      <4>1. i - 1 \in 1..Len(c) - 1 /\ (i - 1) + 1 = i /\ i - 1 \in 1..Len(c)
        BY <1>0, <3>2
      <4> QED
        BY <1>0, <2>1, <4>1
    <3> QED
      BY <3>1, <3>2
  <2> QED
    BY <1>1, <1>2, <2>2
<1>3. CASE having # {}
  <2> DEFINE L == Len(c)
             back == {L - i : i \in having}
  <2>1. back \in SUBSET Nat /\ back # {}
    BY <1>0, <1>3
  <2>2. PICK k \in back : \A j \in back : k <= j
    <3> HIDE DEF back
    <3> QED
      BY <2>1, LeastElement
  <2>3. \E i \in having : \A j \in having : i >= j
    <3>1. PICK i \in having : k = L - i
      BY <2>2
    <3>2. ASSUME NEW j \in having
          PROVE  i >= j
      <4>1. L - j \in back
        OBVIOUS
      <4>2. L - i <= L - j /\ i \in 1..L /\ j \in 1..L /\ L \in Nat
        BY <2>2, <3>1, <4>1, <1>0
      <4> QED
        BY <4>2
    <3> QED
      BY <3>2
  <2> DEFINE i == CHOOSE i \in having : \A j \in having : i >= j
  <2>4. i \in having /\ \A j \in having : i >= j
    BY <2>3
  <2>5. LoadedHeaders(c)[h] = o[i].headers[h]
    BY <1>1, <1>3
  <2> HIDE DEF i
  <2> QED
    BY <1>0, <2>4, <2>5 DEF o
<1> QED
  BY <1>2, <1>3

\* Loaded headers are headers.
LEMMA HeadersType ==
    ASSUME NEW c, Chain(c)
    PROVE  LoadedHeaders(c) \in Headers
<1>1. ASSUME NEW h \in HeaderNames
      PROVE  LoadedHeaders(c)[h] \in Optional(STRING)
  <2>0. \A i \in 1..Len(c) : LoadOrder(c)[i] \in Http
    BY OrderOf
  <2>1. \A i \in 1..Len(c) : LoadOrder(c)[i].headers[h] \in Optional(STRING)
    BY <2>0 DEF Http, Headers
  <2>2. DefaultHeaders[h] \in Optional(STRING)
    BY GuessGiven DEF Headers
  <2> QED
    BY <2>1, <2>2, HeaderOf
<1> QED
  BY <1>1 DEF LoadedHeaders, Headers

\* What extends nothing has its own headers and the default ones.
LEMMA HeadersOne ==
    ASSUME NEW h \in Http, Readable(h.payload)
    PROVE  LoadedHeaders(<<h>>) =
               [n \in HeaderNames |-> IF h.headers[n] = None THEN DefaultHeaders[n]
                                      ELSE h.headers[n]]
<1>1. /\ Chain(<<h>>) /\ DOMAIN <<h>> = {1} /\ Len(<<h>>) = 1 /\ <<h>>[1] = h
      /\ LoadOrder(<<h>>)[1] = h
  BY ChainOne, OrderOf
<1>2. ASSUME NEW n \in HeaderNames
      PROVE  LoadedHeaders(<<h>>)[n] = IF h.headers[n] = None THEN DefaultHeaders[n]
                                       ELSE h.headers[n]
  <2> DEFINE c == <<h>>
  <2>1. /\ Chain(c) /\ DOMAIN c = {1} /\ 1..Len(c) = {1} /\ c[1] = h
        /\ LoadOrder(c)[1] = h
    BY <1>1
  <2> HIDE DEF c
  <2>2. LoadedHeaders(c)[n] = IF h.headers[n] = None THEN DefaultHeaders[n] ELSE h.headers[n]
    BY <2>1, HeaderOf
  <2> QED
    BY <2>2 DEF c
<1> QED
  BY <1>2 DEF LoadedHeaders

-----------------------------------------------------------------------------
\* u[i] is first, and then what next[i] makes of the one before.
Chained(u, n, first, next) ==
    /\ u[1] = first
    /\ \A i \in 2..n : u[i] = next[i][u[i - 1]]

\* It is defined for sequences of any length.
LEMMA ChainedExists ==
    ASSUME NEW L \in Nat \ {0}, NEW V, NEW first \in V, NEW next \in [2..L -> [V -> V]]
    PROVE  \E u \in [1..L -> V] : Chained(u, L, first, next)
<1> DEFINE Defined(n) == \E u \in [1..n -> V] : Chained(u, n, first, next)
           S == {n \in 1..L : ~Defined(n)}
<1> HIDE DEF Defined
<1>1. ASSUME S # {}
      PROVE  FALSE
  <2>0. S \in SUBSET Nat
    OBVIOUS
  <2>1. PICK n \in S : \A m \in S : n <= m
    <3> HIDE DEF S
    <3> QED
      BY <1>1, <2>0, LeastElement
  <2>2. CASE n = 1
    <3> DEFINE u == [i \in 1..1 |-> first]
    <3>1. u \in [1..1 -> V] /\ Chained(u, 1, first, next)
      BY DEF Chained
    <3>2. Defined(1)
      BY <3>1 DEF Defined
    <3> QED
      BY <2>1, <2>2, <3>2
  <2>3. CASE n # 1
    <3>1. n - 1 \in 1..L /\ n - 1 \notin S /\ n \in 2..L
      BY <2>1, <2>3
    <3>2. Defined(n - 1)
      BY <3>1
    <3>3. PICK u \in [1..n - 1 -> V] : Chained(u, n - 1, first, next)
      BY <3>2 DEF Defined
    <3> DEFINE last == next[n][u[n - 1]]
               longer == [i \in 1..n |-> IF i = n THEN last ELSE u[i]]
    <3>4. last \in V
      BY <3>1
    <3>5. longer \in [1..n -> V]
      BY <3>1, <3>4
    <3>6. longer[1] = first
      BY <3>1, <3>3 DEF Chained
    <3>7. ASSUME NEW i \in 2..n
          PROVE  longer[i] = next[i][longer[i - 1]]
      <4>1. i - 1 \in 1..n /\ i - 1 # n /\ longer[i - 1] = u[i - 1]
        BY <3>1
      <4>2. CASE i = n
        BY <3>1, <4>1, <4>2
      <4>3. CASE i # n
        <5>1. i \in 2..n - 1 /\ longer[i] = u[i]
          BY <3>1, <4>3
        <5> QED
          BY <3>3, <4>1, <5>1 DEF Chained
      <4> QED
        BY <4>2, <4>3
    <3> HIDE DEF longer
    <3>8. Chained(longer, n, first, next)
      BY <3>6, <3>7 DEF Chained
    <3>9. Defined(n)
      BY <3>5, <3>8 DEF Defined
    <3> QED
      BY <2>1, <3>9
  <2> QED
    BY <2>2, <2>3
<1>2. Defined(L)
  <2>1. L \in 1..L
    OBVIOUS
  <2> QED
    BY <1>1, <2>1
<1> QED
  BY <1>2 DEF Defined

\* A sequence of one element, and of none.
LEMMA Short ==
    ASSUME NEW V, NEW x \in V
    PROVE  <<x>> \in Seq(V) /\ <<>> \in Seq(V)
OBVIOUS

\* What stands before the path that is joined to a url.
Lead(base) == IF base.host = <<>> /\ base.path = <<>> THEN <<"">> ELSE base.path

LEMMA LeadType ==
    ASSUME NEW base \in Url
    PROVE  Lead(base) \in Seq(STRING)
<1>1. "" \in STRING
  BY LiteralsGiven
<1>2. <<"">> \in Seq(STRING)
  BY <1>1, Short
<1> QED
  BY <1>2 DEF Lead, Url

\* A slash at the front does not count where another path goes on.
LEMMA RelativeType ==
    ASSUME NEW path \in Seq(STRING)
    PROVE  /\ Relative(path) \in Seq(STRING)
           /\ \A rest \in Seq(STRING) :
                 path # <<>> => Relative(path \o rest) = Relative(path) \o rest
           /\ path = <<>> => Relative(path) = <<>>
<1>1. CASE path = <<>>
  BY <1>1 DEF Relative
<1>2. CASE path # <<>>
  <2>1. Len(path) \in Nat \ {0} /\ Tail(path) \in Seq(STRING)
    BY <1>2
  <2>2. ASSUME NEW rest \in Seq(STRING)
        PROVE  /\ path \o rest # <<>> /\ Head(path \o rest) = Head(path)
               /\ Tail(path \o rest) = Tail(path) \o rest
    BY <1>2, <2>1
  <2> QED
    BY <1>2, <2>1, <2>2 DEF Relative
<1> QED
  BY <1>1, <1>2

\* What has come out of joining urls is one.
LEMMA JoinType ==
    ASSUME NEW base \in Url, NEW url \in Url
    PROVE  JoinUrl(base, url) \in Url
<1>1. Lead(base) \in Seq(STRING) /\ Relative(url.path) \in Seq(STRING)
  BY LeadType, RelativeType DEF Url
<1>2. Lead(base) \o Relative(url.path) \in Seq(STRING)
  BY <1>1
<1>3. JoinUrl(base, url) = IF url.host = <<>> /\ url.path = <<>> THEN base
                           ELSE IF url.host # <<>> THEN url
                           ELSE [base EXCEPT !.path = Lead(base) \o Relative(url.path)]
  BY DEF JoinUrl, Lead
<1> QED
  BY <1>2, <1>3 DEF Url

\* What a non-empty sequence is taken apart into.
LEMMA FirstAndRest ==
    ASSUME NEW V, NEW s \in Seq(V), s # <<>>
    PROVE  Head(s) \in V /\ Tail(s) \in Seq(V) /\ <<Head(s)>> \in Seq(V)
<1>1. Len(s) \in Nat /\ Len(s) # 0
  OBVIOUS
<1>2. Head(s) = s[1] /\ s[1] \in V /\ Tail(s) \in Seq(V)
  BY <1>1
<1> QED
  BY <1>2

\* A url is one with a scheme, too.
LEMMA SchemeType ==
    ASSUME NEW url \in Url
    PROVE  WithScheme(url) \in Url
<1>1. CASE url.path = <<>>
  BY <1>1 DEF WithScheme
<1>2. CASE url.path # <<>>
  <2>1. url.path \in Seq(STRING)
    BY DEF Url
  <2>2. /\ Head(url.path) \in STRING /\ Tail(url.path) \in Seq(STRING)
        /\ <<Head(url.path)>> \in Seq(STRING)
    BY <1>2, <2>1, FirstAndRest
  <2> QED
    BY <2>2 DEF WithScheme, Url
<1> QED
  BY <1>1, <1>2

\* load_url: the url of the first n definitions is the n-th of a sequence.
UrlsOf(c, u) ==
    /\ u \in [1..Len(c) -> Url]
    /\ u[1] = c[1].url
    /\ \A i \in 2..Len(c) : u[i] = JoinUrl(c[i].url, u[i - 1])
    /\ LoadedUrl(c) = u[Len(c)]

\* load_url's loop comes to its end for a chain of any length.
LEMMA UrlsExist ==
    ASSUME NEW c, Chain(c)
    PROVE  \E u : UrlsOf(c, u)
<1> DEFINE L == Len(c)
           Is(u) == u = [i \in DOMAIN c |-> IF i = 1 THEN c[i].url ELSE JoinUrl(c[i].url, u[i - 1])]
           url == CHOOSE u : Is(u)
<1>1. LoadedUrl(c) = url[L]
  BY DEF LoadedUrl
<1>2. L \in Nat \ {0} /\ DOMAIN c = 1..L /\ \A i \in 1..L : c[i].url \in Url
  BY ChainHead DEF Http
<1>3. \E u : Is(u)
  <2> DEFINE next == [i \in 2..L |-> [v \in Url |-> JoinUrl(c[i].url, v)]]
  <2>1. next \in [2..L -> [Url -> Url]]
    BY <1>2, JoinType
  <2>2. c[1].url \in Url
    BY <1>2
  <2> HIDE DEF L
  <2>3. PICK u \in [1..L -> Url] : Chained(u, L, c[1].url, next)
    <3> HIDE DEF next
    <3> QED
      BY <1>2, <2>1, <2>2, ChainedExists
  <2>4. ASSUME NEW i \in 1..L
        PROVE  u[i] = IF i = 1 THEN c[i].url ELSE JoinUrl(c[i].url, u[i - 1])
    <3>1. CASE i = 1
      BY <2>3, <3>1 DEF Chained
    <3>2. CASE i # 1
      <4>1. i \in 2..L /\ u[i - 1] \in Url
        BY <1>2, <3>2, <2>3
      <4> QED
        BY <2>3, <3>2, <4>1 DEF Chained
    <3> QED
      BY <3>1, <3>2
  <2>5. Is(u)
    BY <1>2, <2>4
  <2> QED
    BY <2>5
<1>4. Is(url)
  BY <1>3
<1> HIDE DEF url
<1>5. /\ DOMAIN url = 1..L /\ url[1] = c[1].url
      /\ \A i \in 2..L : url[i] = JoinUrl(c[i].url, url[i - 1])
  <2>1. /\ DOMAIN url = 1..L
        /\ \A i \in 1..L : url[i] = IF i = 1 THEN c[i].url ELSE JoinUrl(c[i].url, url[i - 1])
    BY <1>2, <1>4, Zenon
  <2> HIDE DEF L
  <2> QED
    BY <1>2, <2>1
<1>6. \A i \in 1..L : url[i] \in Url
  <2> DEFINE bad == {i \in 1..L : url[i] \notin Url}
  <2>1. ASSUME bad # {}
        PROVE  FALSE
    <3>1. bad \in SUBSET Nat
      BY <1>2
    <3>2. PICK k \in bad : \A j \in bad : k <= j
      <4> HIDE DEF bad
      <4> QED
        BY <2>1, <3>1, LeastElement
    <3>3. CASE k = 1
      BY <1>2, <1>5, <3>2, <3>3
    <3>4. CASE k # 1
      <4>1. k \in 2..L /\ k - 1 \in 1..L /\ k - 1 \notin bad
        BY <1>2, <3>2, <3>4
      <4> QED
        BY <1>2, <1>5, <3>2, <4>1, JoinType
    <3> QED
      BY <3>3, <3>4
  <2> QED
    BY <2>1
<1>7. UrlsOf(c, url)
  <2>1. url \in [1..L -> Url]
    BY <1>4, <1>5, <1>6
  <2> QED
    BY <1>1, <1>5, <2>1 DEF UrlsOf
<1> QED
  BY <1>7

\* What load_url leaves is a url.
LEMMA UrlType ==
    ASSUME NEW c, Chain(c)
    PROVE  LoadedUrl(c) \in Url
BY UrlsExist, ChainHead DEF UrlsOf

\* What extends nothing has its own url.
LEMMA UrlOne ==
    ASSUME NEW h \in Http, Readable(h.payload)
    PROVE  LoadedUrl(<<h>>) = h.url
BY ChainOne, UrlsExist DEF UrlsOf

\* What the first n of a non-empty sequence of sequences are together is the
\* n-th of a sequence.
Together(s, f) ==
    /\ f \in [1..Len(s) -> Seq(STRING)]
    /\ f[1] = s[1]
    /\ \A i \in 2..Len(s) : f[i] = f[i - 1] \o s[i]
    /\ FlattenSeq(s) = f[Len(s)]

\* The values of one key can be put together for a chain of any length.
LEMMA FlattenExists ==
    ASSUME NEW s \in Seq(Seq(STRING)), s # <<>>
    PROVE  \E f : Together(s, f)
<1> DEFINE L == Len(s)
           V == Seq(STRING)
           Is(f) == f = [i \in 1..Len(s) |-> IF i = 1 THEN s[i] ELSE f[i - 1] \o s[i]]
           flat == CHOOSE f : Is(f)
<1>0. L \in Nat \ {0} /\ \A i \in 1..L : s[i] \in V
  OBVIOUS
<1>1. FlattenSeq(s) = flat[L]
  BY <1>0 DEF FlattenSeq
<1> HIDE DEF V
<1>2. \A v \in V, i \in 1..L : v \o s[i] \in V
  BY <1>0 DEF V
<1>3. \E f : Is(f)
  <2> DEFINE next == [i \in 2..L |-> [v \in V |-> v \o s[i]]]
  <2>1. next \in [2..L -> [V -> V]] /\ s[1] \in V
    BY <1>0, <1>2
  <2> HIDE DEF L
  <2>3. PICK f \in [1..L -> V] : Chained(f, L, s[1], next)
    <3> HIDE DEF next
    <3> QED
      BY <1>0, <2>1, ChainedExists
  <2>4. ASSUME NEW i \in 1..L
        PROVE  f[i] = IF i = 1 THEN s[i] ELSE f[i - 1] \o s[i]
    <3>1. CASE i = 1
      BY <2>3, <3>1 DEF Chained
    <3>2. CASE i # 1
      <4>1. i \in 2..L /\ f[i - 1] \in V
        BY <1>0, <3>2, <2>3
      <4>2. f[i] = next[i][f[i - 1]] /\ next[i] = [v \in V |-> v \o s[i]]
        BY <2>3, <4>1 DEF Chained
      <4> HIDE DEF next
      <4> QED
        BY <3>2, <4>1, <4>2
    <3> QED
      BY <3>1, <3>2
  <2>5. Is(f)
    BY <2>4 DEF L
  <2> QED
    BY <2>5
<1>4. Is(flat)
  BY <1>3
<1> HIDE DEF flat
<1>5. /\ DOMAIN flat = 1..L /\ flat[1] = s[1]
      /\ \A i \in 2..L : flat[i] = flat[i - 1] \o s[i]
  <2>1. /\ DOMAIN flat = 1..L
        /\ \A i \in 1..L : flat[i] = IF i = 1 THEN s[i] ELSE flat[i - 1] \o s[i]
    BY <1>4, Zenon
  <2> DEFINE next(i) == flat[i - 1] \o s[i]
  <2>2. \A i \in 1..L : flat[i] = IF i = 1 THEN s[i] ELSE next(i)
    BY <2>1
  <2> HIDE DEF L, next
  <2>3. flat[1] = s[1]
    BY <1>0, <2>2
  <2>4. \A i \in 2..L : flat[i] = next(i)
    BY <1>0, <2>2
  <2> QED
    BY <2>1, <2>3, <2>4 DEF next
<1>6. \A i \in 1..L : flat[i] \in V
  <2> DEFINE bad == {i \in 1..L : flat[i] \notin V}
  <2> HIDE DEF L
  <2>1. ASSUME bad # {}
        PROVE  FALSE
    <3>1. bad \in SUBSET Nat
      BY <1>0
    <3>2. PICK k \in bad : \A j \in bad : k <= j
      <4> HIDE DEF bad
      <4> QED
        BY <2>1, <3>1, LeastElement
    <3>3. CASE k = 1
      BY <1>0, <1>5, <3>2, <3>3
    <3>4. CASE k # 1
      <4>1. k \in 2..L /\ k - 1 \in 1..L /\ k - 1 \notin bad
        BY <1>0, <3>2, <3>4
      <4>2. flat[k] = flat[k - 1] \o s[k] /\ flat[k - 1] \in V /\ k \in 1..L
        BY <1>5, <4>1, <3>2
      <4> QED
        BY <1>2, <3>2, <4>2
    <3> QED
      BY <3>3, <3>4
  <2> QED
    BY <2>1
<1>7. flat \in [1..L -> V]
  <2>1. flat = [i \in 1..L |-> flat[i]]
    BY <1>4
  <2> HIDE DEF L
  <2> QED
    BY <2>1, <1>5, <1>6
<1> QED
  BY <1>1, <1>5, <1>7 DEF Together, V

\* The parameters of a definition are those of the definitions in order.
ValuesOf(c, k) == [i \in DOMAIN c |-> LoadOrder(c)[i].query[k]]

\* A key has one list of values per definition, the definition's own last.
LEMMA ValuesType ==
    ASSUME NEW c, Chain(c), NEW k \in Keys
    PROVE  /\ ValuesOf(c, k) \in Seq(Seq(STRING)) /\ ValuesOf(c, k) # <<>>
           /\ Len(ValuesOf(c, k)) = Len(c)
           /\ ValuesOf(c, k)[Len(c)] = c[1].query[k]
           /\ LoadedQuery(c)[k] = FlattenSeq(ValuesOf(c, k))
<1>1. /\ Len(c) \in Nat \ {0} /\ DOMAIN c = 1..Len(c) /\ LoadOrder(c)[Len(c)] = c[1]
      /\ \A i \in 1..Len(c) : LoadOrder(c)[i] \in Http
  BY ChainHead, OrderOf
<1>2. \A i \in 1..Len(c) : LoadOrder(c)[i].query[k] \in Seq(STRING)
  BY <1>1 DEF Http, Query
<1> DEFINE L == Len(c)
           f == [i \in 1..L |-> LoadOrder(c)[i].query[k]]
<1>3. ValuesOf(c, k) = f /\ LoadedQuery(c)[k] = FlattenSeq(f)
  BY <1>1 DEF ValuesOf, LoadedQuery
<1>4. f[L] = c[1].query[k] /\ \A i \in 1..L : f[i] \in Seq(STRING)
  BY <1>1, <1>2
<1>5. f \in [1..L -> Seq(STRING)]
  BY <1>2
<1> HIDE DEF f, L
<1>6. L \in Nat \ {0}
  BY <1>1 DEF L
<1>7. f \in Seq(Seq(STRING)) /\ Len(f) = L
  BY <1>5, <1>6
<1>8. f # <<>>
  BY <1>6, <1>7
<1> QED
  BY <1>3, <1>4, <1>7, <1>8 DEF L

\* Loaded parameters are parameters.
LEMMA QueryType ==
    ASSUME NEW c, Chain(c)
    PROVE  LoadedQuery(c) \in Query
<1>1. ASSUME NEW k \in Keys
      PROVE  LoadedQuery(c)[k] \in Seq(STRING)
  <2>1. PICK f : Together(ValuesOf(c, k), f)
    BY ValuesType, FlattenExists
  <2>2. Len(ValuesOf(c, k)) = Len(c) /\ LoadedQuery(c)[k] = FlattenSeq(ValuesOf(c, k))
        /\ Len(c) \in Nat \ {0}
    BY ValuesType, ChainHead
  <2> QED
    BY <2>1, <2>2 DEF Together
<1> QED
  BY <1>1 DEF LoadedQuery, Query

\* What extends nothing has its own parameters.
LEMMA QueryOne ==
    ASSUME NEW h \in Http, Readable(h.payload)
    PROVE  LoadedQuery(<<h>>) = h.query
<1> DEFINE c == <<h>>
<1>1. Chain(c) /\ Len(c) = 1 /\ c[1] = h
  BY ChainOne
<1> HIDE DEF c
<1>2. ASSUME NEW k \in Keys
      PROVE  LoadedQuery(c)[k] = h.query[k]
  <2>1. PICK f : Together(ValuesOf(c, k), f)
    BY <1>1, ValuesType, FlattenExists
  <2>2. Len(ValuesOf(c, k)) = 1 /\ LoadedQuery(c)[k] = FlattenSeq(ValuesOf(c, k))
        /\ ValuesOf(c, k)[1] = h.query[k]
    BY <1>1, ValuesType
  <2> QED
    BY <2>1, <2>2 DEF Together
<1>3. h.query \in Query /\ DOMAIN LoadedQuery(c) = Keys
      /\ LoadedQuery(c) = [k \in Keys |-> LoadedQuery(c)[k]]
  BY DEF Http, LoadedQuery
<1>4. h.query = [k \in Keys |-> h.query[k]]
  BY <1>3 DEF Query
<1>5. LoadedQuery(c) = h.query
  BY <1>2, <1>3, <1>4
<1> QED
  BY <1>5 DEF c

-----------------------------------------------------------------------------
\* A payload that does not raise is loaded as a body.
LEMMA PayloadType ==
    ASSUME NEW p \in Payload, Readable(p), ~PayloadRaises(p)
    PROVE  /\ LoadedPayload(p) \in Body
           /\ Readable(LoadedPayload(p))
<1> DEFINE q == LoadedPayload(p)
<1>1. /\ p.kind \in {"none", "text", "form", "file", "json", "multi"}
      /\ p.value \in STRING /\ p.type \in Optional(STRING)
  BY DEF Payload, PayloadRaises
<1>2. p.kind \in {"text", "multi"} \/ (p.kind = "file" /\ readsFiles) =>
          Typed(p.type, p.value) \in Optional(STRING)
  <2>1. ASSUME p.kind \in {"text", "multi"} \/ (p.kind = "file" /\ readsFiles)
        PROVE  p.value \in DOMAIN Guess
    BY <2>1, GuessGiven DEF Readable, PayloadRaises
  <2> QED
    BY <1>1, <2>1, GuessGiven DEF Typed, Optional
<1>3. /\ q.kind = p.kind /\ q.value = p.value
      /\ q.part = IF p.kind = "multi" THEN Typed(p.type, p.value) ELSE None
  BY DEF LoadedPayload
<1>4. q.part \in Optional(STRING)
  BY <1>2, <1>3 DEF Optional
<1>5. q.header \in Optional(STRING)
  <2>1. CASE p.kind = "none" \/ (p.kind = "file" /\ ~readsFiles)
    BY <2>1 DEF LoadedPayload, Optional
  <2>2. CASE p.kind = "text" \/ (p.kind = "file" /\ readsFiles)
    BY <1>2, <2>2 DEF LoadedPayload
  <2>3. CASE p.kind = "form"
    BY <2>3, LiteralsGiven DEF LoadedPayload, Optional
  <2>4. CASE p.kind = "json"
    BY <2>4, LiteralsGiven DEF LoadedPayload, Optional
  <2>5. CASE p.kind = "multi"
    BY <2>5, LiteralsGiven DEF LoadedPayload, Optional
  <2> QED
    BY <1>1, <2>1, <2>2, <2>3, <2>4, <2>5
<1>6. q = [kind |-> q.kind, value |-> q.value, part |-> q.part, header |-> q.header]
  <2>1. \E a, b, c, d : q = [kind |-> a, value |-> b, part |-> c, header |-> d]
    BY Zenon DEF LoadedPayload
  <2> HIDE DEF q
  <2> QED
    BY <2>1
<1> HIDE DEF q
<1>7. q \in Body
  BY <1>1, <1>3, <1>4, <1>5, <1>6 DEF Body
<1> QED
  BY <1>3, <1>7 DEF Readable, q

\* The labels before amazonaws.com.
Labels(host) == SubSeq(host, 1, Len(host) - 2)
IsAwsHost(host) ==
    Len(host) > 2 /\ host[Len(host) - 1] = "amazonaws" /\ host[Len(host)] = "com"
OrDefault(region) == IF region = None THEN "us-east-1" ELSE region

\* What one label says.
LastOf(host) == Labels(host)[Len(Labels(host))]
IsLegacy(host) == LastOf(host) \in DOMAIN LegacyParts
ServiceOfOne(service, host) ==
    IF IsLegacy(host) /\ LegacyParts[LastOf(host)].service \in KnownServices
    THEN LegacyParts[LastOf(host)].service
    ELSE IF service = None \/ LastOf(host) \in KnownServices THEN LastOf(host) ELSE service
RegionOfOne(region, host) ==
    IF IsLegacy(host) /\ LegacyParts[LastOf(host)].region \in KnownRegions
    THEN LegacyParts[LastOf(host)].region
    ELSE OrDefault(region)

\* What the last two of several say.
ServiceOfMore(service, host) ==
    LET before == Labels(host)[Len(Labels(host)) - 1]
    IN IF before \in KnownServices THEN before ELSE service
RegionOfMore(region, host) == IF LastOf(host) \in KnownRegions THEN LastOf(host) ELSE region

\* A host of AWS has labels before amazonaws.com.
LEMMA LabelsOf ==
    ASSUME NEW host \in Seq(STRING), IsAwsHost(host)
    PROVE  /\ Labels(host) \in Seq(STRING) /\ Len(Labels(host)) = Len(host) - 2
           /\ Len(Labels(host)) \in Nat /\ Len(Labels(host)) > 0
           /\ \A i \in 1..Len(host) - 2 : Labels(host)[i] = host[i]
           /\ LastOf(host) = host[Len(host) - 2] /\ LastOf(host) \in STRING
<1>1. /\ Len(host) \in Nat /\ Len(host) > 2 /\ Len(Labels(host)) = Len(host) - 2
      /\ Labels(host) \in Seq(STRING)
      /\ \A i \in 1..Len(host) - 2 : Labels(host)[i] = host[i]
  BY DEF IsAwsHost, Labels
<1>2. Len(Labels(host)) \in Nat /\ Len(Labels(host)) > 0 /\ LastOf(host) \in STRING
  BY <1>1 DEF LastOf
<1>3. LastOf(host) = host[Len(host) - 2]
  BY <1>1 DEF LastOf
<1> QED
  BY <1>1, <1>2, <1>3

\* Elsewhere, what the author wrote is signed for.
LEMMA AwsNone ==
    ASSUME NEW auth, NEW host \in Seq(STRING), ~IsAwsHost(host)
    PROVE  AwsFromHost(auth, host) = [service |-> auth.service, region |-> OrDefault(auth.region)]
BY DEF AwsFromHost, IsAwsHost, OrDefault

\* What is signed for if the host has one label.
LEMMA AwsOne ==
    ASSUME NEW auth, NEW host \in Seq(STRING), IsAwsHost(host), Len(Labels(host)) = 1
    PROVE  AwsFromHost(auth, host) =
               [service |-> ServiceOfOne(auth.service, host),
                region |-> OrDefault(RegionOfOne(auth.region, host))]
BY DEF AwsFromHost, IsAwsHost, OrDefault, Labels, ServiceOfOne, RegionOfOne, LastOf, IsLegacy

\* What is signed for if the host has more labels.
LEMMA AwsMore ==
    ASSUME NEW auth, NEW host \in Seq(STRING), IsAwsHost(host), Len(Labels(host)) > 1
    PROVE  AwsFromHost(auth, host) =
               [service |-> ServiceOfMore(auth.service, host),
                region |-> OrDefault(RegionOfMore(auth.region, host))]
<1>1. ~(Len(Labels(host)) = 1)
  BY LabelsOf
<1> QED
  BY <1>1 DEF AwsFromHost, IsAwsHost, OrDefault, Labels, ServiceOfMore, RegionOfMore, LastOf

\* A host of AWS has one label or more.
LEMMA OneOrMore ==
    ASSUME NEW host \in Seq(STRING), IsAwsHost(host)
    PROVE  Len(Labels(host)) = 1 \/ Len(Labels(host)) > 1
<1> DEFINE n == Len(Labels(host))
<1>1. n \in Nat /\ n > 0
  BY LabelsOf
<1> HIDE DEF n
<1>2. n = 1 \/ n > 1
  BY <1>1
<1> QED
  BY <1>2 DEF n

\* A service and a region are text or absent.
LEMMA AwsType ==
    ASSUME NEW auth \in Auth, NEW host \in Seq(STRING)
    PROVE  /\ AwsFromHost(auth, host).service \in Optional(STRING)
           /\ AwsFromHost(auth, host).region \in STRING
<1>1. auth.service \in Optional(STRING) /\ auth.region \in Optional(STRING)
  BY DEF Auth
<1>2. \A name \in KnownServices \cup KnownRegions : name \in STRING
  BY GuessGiven
<1>3. \A region \in Optional(STRING) : OrDefault(region) \in STRING
  BY LiteralsGiven DEF Optional, OrDefault
<1>4. CASE ~IsAwsHost(host)
  BY <1>1, <1>3, <1>4, AwsNone
<1>5. CASE IsAwsHost(host)
  <2>1. LastOf(host) \in STRING
    BY <1>5, LabelsOf
  <2>2. /\ ServiceOfOne(auth.service, host) \in Optional(STRING)
        /\ RegionOfOne(auth.region, host) \in Optional(STRING)
    BY <1>1, <1>2, <1>3, <2>1 DEF Optional, ServiceOfOne, RegionOfOne
  <2>3. /\ ServiceOfMore(auth.service, host) \in Optional(STRING)
        /\ RegionOfMore(auth.region, host) \in Optional(STRING)
    BY <1>1, <1>2, <2>1 DEF Optional, ServiceOfMore, RegionOfMore
  <2> QED
    BY <1>3, <1>5, <2>2, <2>3, OneOrMore, AwsOne, AwsMore
<1> QED
  BY <1>4, <1>5

\* What an author wrote and the host make of a signature, they make again of
\* what came out.
LEMMA AwsAgain ==
    ASSUME NEW auth \in Auth, NEW host \in Seq(STRING)
    PROVE  LET aws == AwsFromHost(auth, host)
               signed == [auth EXCEPT !.service = aws.service, !.region = aws.region]
           IN AwsFromHost(signed, host) = [service |-> signed.service, region |-> signed.region]
<1> DEFINE aws == AwsFromHost(auth, host)
           signed == [auth EXCEPT !.service = aws.service, !.region = aws.region]
<1>1. aws.service \in Optional(STRING) /\ aws.region # None
  BY AwsType, NoneGiven
<1>2. signed.service = aws.service /\ signed.region = aws.region
  BY DEF Auth
<1> HIDE DEF signed
<1>3. OrDefault(aws.region) = aws.region
  BY <1>1 DEF OrDefault
<1>4. CASE ~IsAwsHost(host)
  <2>1. aws.service = auth.service
    BY <1>4, AwsNone
  <2>2. AwsFromHost(signed, host) =
            [service |-> signed.service, region |-> OrDefault(signed.region)]
    BY <1>4, AwsNone
  <2> QED
    BY <1>2, <1>3, <2>2 DEF signed
<1>5. CASE IsAwsHost(host) /\ Len(Labels(host)) = 1
  <2>1. /\ aws.service = ServiceOfOne(auth.service, host)
        /\ aws.region = OrDefault(RegionOfOne(auth.region, host))
    BY <1>5, AwsOne
  <2>2. LastOf(host) # None
    BY <1>5, LabelsOf, NoneGiven
  <2>3. ServiceOfOne(aws.service, host) = aws.service
    BY <2>1, <2>2 DEF ServiceOfOne
  <2>4. OrDefault(RegionOfOne(aws.region, host)) = aws.region
    BY <1>1, <2>1 DEF RegionOfOne, OrDefault
  <2>5. AwsFromHost(signed, host) =
            [service |-> ServiceOfOne(signed.service, host),
             region |-> OrDefault(RegionOfOne(signed.region, host))]
    BY <1>5, AwsOne
  <2> QED
    BY <1>2, <2>3, <2>4, <2>5 DEF signed
<1>6. CASE IsAwsHost(host) /\ Len(Labels(host)) > 1
  <2>1. /\ aws.service = ServiceOfMore(auth.service, host)
        /\ aws.region = OrDefault(RegionOfMore(auth.region, host))
    BY <1>6, AwsMore
  <2>2. ServiceOfMore(aws.service, host) = aws.service
    BY <2>1 DEF ServiceOfMore
  <2>3. OrDefault(RegionOfMore(aws.region, host)) = aws.region
    BY <1>1, <2>1 DEF RegionOfMore, OrDefault
  <2>4. AwsFromHost(signed, host) =
            [service |-> ServiceOfMore(signed.service, host),
             region |-> OrDefault(RegionOfMore(signed.region, host))]
    BY <1>6, AwsMore
  <2> QED
    BY <1>2, <2>2, <2>3, <2>4 DEF signed
<1> QED
  BY <1>4, <1>5, <1>6, OneOrMore

\* Loaded authentication is authentication.
LEMMA AuthType ==
    ASSUME NEW c, Chain(c), NEW url \in Url
    PROVE  LET auth == LoadedAuth(c, url) IN
           /\ auth \in Optional(Auth)
           /\ auth # None /\ auth.kind = "aws" =>
                 AwsFromHost(auth, url.host) = [service |-> auth.service, region |-> auth.region]
<1> DEFINE wrap == CurrentOrBase(c, "authwrap")
           aws == AwsFromHost(wrap, url.host)
           auth == LoadedAuth(c, url)
<1>1. wrap \in Optional(Auth) /\ url.host \in Seq(STRING)
  BY CurrentOrBaseTypes DEF Url
<1>2. CASE wrap = None \/ wrap.kind # "aws"
  BY <1>1, <1>2 DEF LoadedAuth
<1>3. CASE wrap # None /\ wrap.kind = "aws"
  <2>1. wrap \in Auth
    BY <1>1, <1>3 DEF Optional
  <2>2. auth = [wrap EXCEPT !.service = aws.service, !.region = aws.region]
    BY <1>3 DEF LoadedAuth
  <2>3. aws.service \in Optional(STRING) /\ aws.region \in Optional(STRING)
    BY <1>1, <2>1, AwsType DEF Optional
  <2>4. auth \in Auth
    BY <2>1, <2>2, <2>3 DEF Auth
  <2>5. AwsFromHost(auth, url.host) = [service |-> auth.service, region |-> auth.region]
    BY <1>1, <2>1, <2>2, AwsAgain
  <2> QED
    BY <2>4, <2>5 DEF Optional
<1> QED
  BY <1>2, <1>3

\* A url has a scheme once it has been put before it.
LEMMA SchemeAgain ==
    ASSUME NEW url \in Url
    PROVE  WithScheme(WithScheme(url)) = WithScheme(url)
<1>1. CASE url.host # <<>> \/ url.path = <<>>
  BY <1>1 DEF WithScheme
<1>2. CASE ~(url.host # <<>> \/ url.path = <<>>)
  <2>1. WithScheme(url).host = <<Head(url.path)>>
    BY <1>2 DEF WithScheme, Url
  <2>2. WithScheme(url).host # <<>>
    BY <2>1
  <2> QED
    BY <2>2 DEF WithScheme
<1> QED
  BY <1>1, <1>2

-----------------------------------------------------------------------------
\* def is what the loaders make of c.
IsLoaded(def, c) ==
    /\ def.clear = Flag(c, "clear") /\ def.insecure = Flag(c, "insecure")
    /\ def.script = LoadedScript(c)
    /\ def.method = LoadedMethod(Head(c))
    /\ def.url = WithScheme(LoadedUrl(c))
    /\ def.headers = LoadedHeaders(c)
    /\ def.query = LoadedQuery(c)
    /\ ~PayloadRaises(Head(c).payload) /\ def.payload = LoadedPayload(Head(c).payload)
    /\ ~AuthRaises(c, def.url) /\ def.auth = LoadedAuth(c, def.url)
    /\ def.timeout = LoadedTimeout(c)
    /\ def.proxy = CurrentOrBase(c, "proxy")
    /\ def.certificate = CurrentOrBase(c, "certificate")

\* What every definition is that has been loaded, from whatever chain.
Def(def) ==
    /\ def.clear \in BOOLEAN /\ def.insecure \in BOOLEAN
    /\ def.script \in Optional(STRING)
    /\ def.method \in STRING
    /\ def.url \in Url /\ WithScheme(def.url) = def.url
    /\ def.headers \in Headers
    /\ \A h \in HeaderNames : def.headers[h] = None => DefaultHeaders[h] = None
    /\ def.query \in Query
    /\ \E p \in Payload : Readable(p) /\ ~PayloadRaises(p) /\ def.payload = LoadedPayload(p)
    /\ def.payload \in Body /\ Readable(def.payload)
    /\ def.auth \in Optional(Auth)
    /\ def.auth # None /\ def.auth.kind = "aws" =>
          AwsFromHost(def.auth, def.url.host)
              = [service |-> def.auth.service, region |-> def.auth.region]
    /\ def.auth # None /\ def.auth.kind = "aws" => def.url.host \notin NoHost
    /\ def.certificate \in Optional(Certificate)

\* Whatever chain it was loaded from, a request is what Def says.
LEMMA LoadedIsDef ==
    ASSUME NEW def, NEW c, Chain(c), IsLoaded(def, c)
    PROVE  Def(def)
<1>1. def.clear \in BOOLEAN /\ def.insecure \in BOOLEAN
  BY DEF IsLoaded, Flag
<1>2. def.script \in Optional(STRING) /\ def.method \in STRING
  BY ScriptType, MethodType DEF IsLoaded
<1>3. def.url \in Url /\ WithScheme(def.url) = def.url
  BY UrlType, SchemeType, SchemeAgain DEF IsLoaded
<1>4. def.headers \in Headers /\ def.query \in Query
  BY HeadersType, QueryType DEF IsLoaded
<1>5. \A h \in HeaderNames : def.headers[h] = None => DefaultHeaders[h] = None
  <2> TAKE h \in HeaderNames
  <2>1. def.headers[h] = LoadedHeaders(c)[h]
    BY DEF IsLoaded
  <2> QED
    BY <2>1, HeaderOf
<1>6. /\ \E p \in Payload : Readable(p) /\ ~PayloadRaises(p) /\ def.payload = LoadedPayload(p)
      /\ def.payload \in Body /\ Readable(def.payload)
  <2>1. /\ Head(c).payload \in Payload /\ Readable(Head(c).payload)
        /\ ~PayloadRaises(Head(c).payload) /\ def.payload = LoadedPayload(Head(c).payload)
    BY ChainHead DEF IsLoaded, Http
  <2> QED
    BY <2>1, PayloadType
<1>7. /\ def.auth \in Optional(Auth)
      /\ def.auth # None /\ def.auth.kind = "aws" =>
            AwsFromHost(def.auth, def.url.host)
                = [service |-> def.auth.service, region |-> def.auth.region]
  <2>1. def.auth = LoadedAuth(c, def.url)
    BY DEF IsLoaded
  <2> QED
    BY <1>3, <2>1, AuthType
<1>8. def.certificate \in Optional(Certificate)
  BY CurrentOrBaseTypes DEF IsLoaded
<1>9. def.auth # None /\ def.auth.kind = "aws" => def.url.host \notin NoHost
  <2> DEFINE wrap == CurrentOrBase(c, "authwrap")
  <2>1. /\ def.auth = LoadedAuth(c, def.url)
        /\ ~(wrap # None /\ wrap.kind = "aws" /\ def.url.host \in NoHost)
    BY DEF IsLoaded, AuthRaises
  <2>2. wrap = None \/ wrap.kind # "aws" => def.auth = wrap
    BY <2>1 DEF LoadedAuth
  <2> QED
    BY <2>1, <2>2
<1> QED
  BY <1>1, <1>2, <1>3, <1>4, <1>5, <1>6, <1>7, <1>8, <1>9 DEF Def

-----------------------------------------------------------------------------
\* A definition that can be written as text and read again.
Writable(h) == h \in Http /\ Readable(h.payload)

\* A definition of a url and a method is one the grammar builds.
LEMMA BareType ==
    ASSUME NEW url \in Url, NEW method \in STRING
    PROVE  Bare(url, method) \in Http
<1>1. /\ [h \in HeaderNames |-> None] \in Headers /\ [k \in Keys |-> <<>>] \in Query
  BY DEF Headers, Query, Optional
<1>2. NoPayload \in Payload
  BY LiteralsGiven DEF NoPayload, Payload, Optional
<1> QED
  BY <1>1, <1>2 DEF Bare, Http, Optional

\* What format_http has written is parsed as a definition.
LEMMA FormattedType ==
    ASSUME NEW h, Writable(h)
    PROVE  Writable(Formatted(h))
<1> DEFINE f == Formatted(h)
           none == [n \in HeaderNames |-> IF h.headers[n] = "" THEN None ELSE h.headers[n]]
           p == IF h.payload.kind \in {"form", "json"} /\ ~Counts(h.payload) THEN NoPayload
                ELSE h.payload
<1>1. f = [h EXCEPT !.headers = none, !.extra_args = h.extra_args \ {"no_parent_script"},
                    !.named_args = FALSE, !.payload = p]
  BY DEF Formatted
<1>2. h \in Http /\ Readable(h.payload)
  BY DEF Writable
<1>3. none \in Headers
  <2>1. h.headers \in Headers
    BY <1>2 DEF Http
  <2> QED
    BY <2>1 DEF Headers, Optional
<1>4. p \in Payload /\ Readable(p)
  <2>1. NoPayload \in Payload /\ Readable(NoPayload)
    BY LiteralsGiven DEF NoPayload, Payload, Optional, Readable
  <2> QED
    BY <1>2, <2>1 DEF Http
<1> HIDE DEF none, p, f
<1>5. h.extra_args \ {"no_parent_script"} \in SUBSET {"clear", "insecure", "no_parent_script"}
  BY <1>2 DEF Http
<1>6. f \in Http
  BY <1>1, <1>2, <1>3, <1>4, <1>5 DEF Http
<1>7. f.payload = p
  BY <1>1, <1>2 DEF Http
<1> QED
  BY <1>4, <1>6, <1>7 DEF Writable, f

\* get_http_from_req makes a definition of everything that can be loaded.
PayloadFromReq(p) ==
    IF p.kind = "json" /\ ~Counts(p) THEN NoPayload
    ELSE [kind |-> p.kind, value |-> p.value, type |-> p.part]

\* The payload that is shown is one the grammar builds.
LEMMA PayloadFromReqType ==
    ASSUME NEW p \in Body, Readable(p)
    PROVE  PayloadFromReq(p) \in Payload /\ Readable(PayloadFromReq(p))
<1>1. NoPayload \in Payload /\ Readable(NoPayload)
  BY LiteralsGiven DEF NoPayload, Payload, Optional, Readable
<1>2. /\ [kind |-> p.kind, value |-> p.value, type |-> p.part] \in Payload
      /\ Readable([kind |-> p.kind, value |-> p.value, type |-> p.part])
  BY DEF Body, Payload, Readable
<1> QED
  BY <1>1, <1>2 DEF PayloadFromReq

\* The definition that stands for a request, field by field.
LEMMA FromReqFields ==
    ASSUME NEW def, Def(def)
    PROVE  /\ Writable(HttpFromReq(def))
           /\ HttpFromReq(def).url = def.url /\ HttpFromReq(def).method = def.method
           /\ HttpFromReq(def).headers = def.headers /\ HttpFromReq(def).query = def.query
           /\ HttpFromReq(def).extra_args = {flag \in {"clear", "insecure"} : def[flag]}
           /\ HttpFromReq(def).named_args = FALSE
           /\ HttpFromReq(def).authwrap = def.auth
           /\ HttpFromReq(def).certificate = def.certificate
           /\ HttpFromReq(def).script_wrap = def.script
           /\ HttpFromReq(def).payload = PayloadFromReq(def.payload)
<1> DEFINE b == Bare(def.url, def.method)
           flags == {flag \in {"clear", "insecure"} : def[flag]}
           p == PayloadFromReq(def.payload)
<1>1. HttpFromReq(def) =
          [b EXCEPT !.extra_args = flags, !.headers = def.headers, !.query = def.query,
                    !.authwrap = def.auth, !.certificate = def.certificate,
                    !.script_wrap = def.script, !.payload = p]
  BY DEF HttpFromReq, PayloadFromReq
<1>2. b \in Http
  BY BareType DEF Def
<1>3. b.url = def.url /\ b.method = def.method /\ b.named_args = FALSE
  BY DEF Bare
<1>4. p \in Payload /\ Readable(p)
  BY PayloadFromReqType DEF Def
<1>5. flags \in SUBSET {"clear", "insecure", "no_parent_script"}
  OBVIOUS
<1>6. /\ def.headers \in Headers /\ def.query \in Query /\ def.auth \in Optional(Auth)
      /\ def.certificate \in Optional(Certificate) /\ def.script \in Optional(STRING)
  BY DEF Def
<1> HIDE DEF b, flags, p
<1> DEFINE h == HttpFromReq(def)
<1>7. h \in Http
  BY <1>1, <1>2, <1>4, <1>5, <1>6 DEF Http
<1>8. /\ h.url = b.url /\ h.method = b.method /\ h.named_args = b.named_args
      /\ h.headers = def.headers /\ h.query = def.query /\ h.extra_args = flags
      /\ h.authwrap = def.auth /\ h.certificate = def.certificate
      /\ h.script_wrap = def.script /\ h.payload = p
  BY <1>1, <1>2 DEF Http
<1> QED
  BY <1>3, <1>4, <1>7, <1>8 DEF Writable, flags, p

\* import_leaf_item makes a definition of every item that Postman exports, and
\* of what is exported to it unless a part is a file.
Importable(item) ==
    /\ item.method \in STRING /\ item.url \in Url /\ item.query \in Query
    /\ item.headers \in Headers
    /\ item.auth.kind \in {"bearer", "apikey_header"} => item.auth.kind \in STRING
    /\ item.auth.kind \in {"basic", "digest", "ntlm", "hawk", "aws"} => item.auth \in Auth
    /\ item.body.mode \in {"none", "raw", "urlencoded", "file", "formdata_text",
                           "formdata_file"}
    /\ item.body.value \in STRING /\ item.body.type \in Optional(STRING)
    /\ item.body.mode \in {"raw", "formdata_text", "formdata_file"} =>
          item.body.value \in DOMAIN Guess

UrlFromPostman(item) ==
    IF item.parsed
    THEN [host |-> IF item.url.host \in NoHost THEN <<"{{host}}">> ELSE item.url.host,
          port |-> None,
          path |-> IF item.url.path = <<>> THEN <<>> ELSE <<"">> \o item.url.path]
    ELSE item.url
HeadersFromPostman(item) ==
    [h \in HeaderNames |->
        IF /\ item.headers[h] \in {None, ""}
           /\ h = "authorization"
           /\ item.auth.kind \in {"bearer", "apikey_header"}
        THEN item.auth.kind ELSE item.headers[h]]
QueryFromPostman(item) ==
    [k \in Keys |->
        (IF k = "key" /\ item.auth.kind = "apikey_query" THEN <<"value">> ELSE <<>>)
            \o UnquoteAll(item.query[k])]

\* Values that are unquoted are values.
LEMMA UnquotedType ==
    ASSUME NEW values \in Seq(STRING)
    PROVE  UnquoteAll(values) \in Seq(STRING)
<1>1. \A value \in STRING : Unquote(value) \in STRING
  BY ConversionsAssumption DEF ConversionsAssumption, Unquote
<1>2. DOMAIN values = 1..Len(values) /\ Len(values) \in Nat
      /\ \A i \in 1..Len(values) : values[i] \in STRING
  OBVIOUS
<1> DEFINE n == Len(values)
<1>3. UnquoteAll(values) = [i \in 1..n |-> Unquote(values[i])]
  BY <1>2 DEF UnquoteAll
<1>4. n \in Nat /\ \A i \in 1..n : Unquote(values[i]) \in STRING
  BY <1>1, <1>2
<1> HIDE DEF n
<1>5. [i \in 1..n |-> Unquote(values[i])] \in [1..n -> STRING]
  BY <1>4
<1>6. \A s \in [1..n -> STRING] : s \in Seq(STRING)
  BY <1>4
<1> QED
  BY <1>3, <1>5, <1>6

\* JSON that is read and written twice is what it is after the first time.
LEMMA DumpedAgain ==
    ASSUME NEW text \in DOMAIN Guess
    PROVE  Dump(text) \in DOMAIN Guess /\ Dump(Dump(text)) = Dump(text) /\ Dump(text) \in STRING
BY ConversionsAssumption, InheritanceAssumption
   DEF ConversionsAssumption, InheritanceAssumption, Dump

\* The payload that is imported is one the grammar builds.
LEMMA PostmanPayloadType ==
    ASSUME NEW item, Importable(item)
    PROVE  PostmanPayload(item) \in Payload /\ Readable(PostmanPayload(item))
<1> DEFINE b == item.body
           p == PostmanPayload(item)
<1>0. NoPayload \in Payload /\ Readable(NoPayload)
  BY LiteralsGiven DEF NoPayload, Payload, Optional, Readable
<1>1. CASE b.mode \in {"formdata_file", "formdata_text"}
  BY <1>1 DEF PostmanPayload, Importable, Payload, Readable, Optional
<1>2. CASE b.mode = "file"
  BY <1>2 DEF PostmanPayload, Importable, Payload, Readable, Optional
<1>3. CASE b.mode = "raw"
  <2>1. \/ p = [kind |-> "json", value |-> Dump(b.value), type |-> None]
        \/ p = [kind |-> "text", value |-> b.value, type |-> None]
    BY <1>3 DEF PostmanPayload
  <2> HIDE DEF p
  <2>2. /\ b.value \in DOMAIN Guess /\ b.value \in STRING
        /\ Dump(b.value) \in DOMAIN Guess /\ Dump(Dump(b.value)) = Dump(b.value)
        /\ Dump(b.value) \in STRING
    BY <1>3, DumpedAgain DEF Importable
  <2>3. p \in Payload /\ Readable(p)
    BY <2>1, <2>2 DEF Payload, Readable, Optional
  <2> QED
    BY <2>3 DEF p
<1>4. CASE b.mode = "urlencoded" /\ b.value \notin Empty
  BY <1>4 DEF PostmanPayload, Importable, Payload, Readable, Optional
<1>5. CASE (b.mode = "urlencoded" /\ b.value \in Empty) \/ b.mode = "none"
  BY <1>0, <1>5 DEF PostmanPayload
<1> QED
  BY <1>1, <1>2, <1>3, <1>4, <1>5 DEF Importable

\* Two sequences put together are one.
LEMMA Joined ==
    ASSUME NEW V, NEW s \in Seq(V), NEW t \in Seq(V)
    PROVE  s \o t \in Seq(V)
OBVIOUS

\* The url that is imported is a url.
LEMMA PostmanUrlType ==
    ASSUME NEW item, Importable(item)
    PROVE  UrlFromPostman(item) \in Url
<1>1. item.url \in Url
  BY DEF Importable
<1>2. item.url.host \in Seq(STRING) /\ item.url.path \in Seq(STRING)
  BY <1>1 DEF Url
<1>3. <<"{{host}}">> \in Seq(STRING) /\ <<>> \in Seq(STRING) /\ <<"">> \in Seq(STRING)
  BY LiteralsGiven, Short
<1>4. <<"">> \o item.url.path \in Seq(STRING)
  BY <1>2, <1>3, Joined
<1> QED
  BY <1>1, <1>2, <1>3, <1>4 DEF UrlFromPostman, Url, Optional

\* The definition that an item is imported as, field by field.
LEMMA FromPostmanFields ==
    ASSUME NEW item, Importable(item)
    PROVE  /\ Writable(HttpFromPostman(item))
           /\ HttpFromPostman(item).url = UrlFromPostman(item)
           /\ HttpFromPostman(item).method = item.method
           /\ HttpFromPostman(item).headers = HeadersFromPostman(item)
           /\ HttpFromPostman(item).query = QueryFromPostman(item)
           /\ HttpFromPostman(item).named_args = FALSE
           /\ HttpFromPostman(item).authwrap = PostmanAuth(item.auth)
           /\ HttpFromPostman(item).payload = PostmanPayload(item)
<1> DEFINE b == Bare(UrlFromPostman(item), item.method)
           headers == HeadersFromPostman(item)
           query == QueryFromPostman(item)
           auth == PostmanAuth(item.auth)
           p == PostmanPayload(item)
           h == HttpFromPostman(item)
<1>1. h = [b EXCEPT !.headers = headers, !.query = query, !.authwrap = auth, !.payload = p]
  BY DEF HttpFromPostman, UrlFromPostman, HeadersFromPostman, QueryFromPostman
<1>2. b \in Http /\ b.url = UrlFromPostman(item) /\ b.method = item.method
      /\ b.named_args = FALSE
  BY PostmanUrlType, BareType DEF Importable, Bare
<1>3. headers \in Headers
  <2>1. /\ item.headers \in Headers
        /\ item.auth.kind \in {"bearer", "apikey_header"} => item.auth.kind \in STRING
    BY DEF Importable
  <2> QED
    BY <2>1 DEF HeadersFromPostman, Headers, Optional
<1>4. query \in Query
  <2>1. item.query \in Query
    BY DEF Importable
  <2>2. ASSUME NEW k \in Keys
        PROVE  query[k] \in Seq(STRING)
    <3>1. item.query[k] \in Seq(STRING)
      BY <2>1 DEF Query
    <3>2. <<"value">> \in Seq(STRING) /\ <<>> \in Seq(STRING)
      BY LiteralsGiven, Short
    <3> DEFINE own == UnquoteAll(item.query[k])
    <3>a. own \in Seq(STRING)
      BY <3>1, UnquotedType
    <3> HIDE DEF own
    <3>b. <<"value">> \o own \in Seq(STRING) /\ <<>> \o own \in Seq(STRING)
      BY <3>2, <3>a
    <3>3. /\ <<"value">> \o UnquoteAll(item.query[k]) \in Seq(STRING)
          /\ <<>> \o UnquoteAll(item.query[k]) \in Seq(STRING)
      BY <3>b DEF own
    <3> QED
      BY <3>3 DEF QueryFromPostman
  <2> QED
    BY <2>2 DEF QueryFromPostman, Query
<1>5. auth \in Optional(Auth)
  <2>1. item.auth.kind \in {"basic", "digest", "ntlm", "hawk", "aws"} => item.auth \in Auth
    BY DEF Importable
  <2>2. CASE item.auth.kind \in {"basic", "digest", "ntlm", "aws"}
    BY <2>1, <2>2 DEF PostmanAuth, Optional
  <2>3. CASE item.auth.kind = "hawk"
    <3>1. item.auth \in Auth
      BY <2>1, <2>3
    <3>2. auth = [item.auth EXCEPT !.kind = "hawk_without_id"]
      BY <2>3 DEF PostmanAuth
    <3> QED
      BY <3>1, <3>2, LiteralsGiven DEF Auth, Optional
  <2>4. CASE item.auth.kind \notin {"basic", "digest", "ntlm", "aws", "hawk"}
    BY <2>4 DEF PostmanAuth, Optional
  <2> QED
    BY <2>2, <2>3, <2>4
<1>6. p \in Payload /\ Readable(p)
  BY PostmanPayloadType
<1> HIDE DEF b, headers, query, auth, p, h
<1>7. h \in Http
  BY <1>1, <1>2, <1>3, <1>4, <1>5, <1>6 DEF Http
<1>8. /\ h.url = b.url /\ h.method = b.method /\ h.named_args = b.named_args
      /\ h.headers = headers /\ h.query = query
      /\ h.authwrap = auth /\ h.payload = p
  BY <1>1, <1>2 DEF Http
<1> QED
  BY <1>2, <1>6, <1>7, <1>8 DEF Writable, headers, query, auth, p, h

\* What Postman has written can be imported.
LEMMA ItemsAreImportable ==
    ASSUME NEW item \in PostmanItems
    PROVE  Importable(item)
<1>1. item \in Item /\ item.body.value \in DOMAIN Guess
  BY ConversionsAssumption DEF ConversionsAssumption
<1>2. item.auth.kind \in {"basic", "digest", "ntlm", "hawk", "aws"} => item.auth \in Auth
  BY <1>1 DEF Item, Auth
<1> QED
  BY <1>1, <1>2 DEF Item, Importable

\* What goes to Postman comes back, unless a part is a file.
LEMMA RequestIsImportable ==
    ASSUME NEW def, Def(def), ~FormatRaises(HttpFromPostman(PostmanRequest(def)))
    PROVE  Importable(PostmanRequest(def))
<1> DEFINE r == PostmanRequest(def)
           p == def.payload
           json == p.kind = "json" /\ Counts(p)
<1>1. /\ def.method \in STRING /\ def.url \in Url /\ def.query \in Query /\ def.headers \in Headers
      /\ def.auth \in Optional(Auth) /\ p \in Body /\ Readable(p)
  BY DEF Def
<1>2. /\ r.method = def.method /\ r.url = def.url /\ r.query = def.query
      /\ r.headers = [def.headers EXCEPT ![ContentType] = IF json THEN Json
                                                           ELSE def.headers[ContentType]]
      /\ r.auth = IF def.auth = None THEN NoAuth ELSE def.auth
      /\ r.body.type = p.part
      /\ r.body.value = IF p.kind = "multi" /\ p.value \in FilesThere THEN None ELSE p.value
  BY DEF PostmanRequest
<1>3. r.headers \in Headers
  <2>1. (IF json THEN Json ELSE def.headers[ContentType]) \in Optional(STRING)
    BY <1>1, LiteralsGiven, ConversionsAssumption
       DEF Headers, ContentType, Json, Optional, ConversionsAssumption
  <2> QED
    BY <1>1, <1>2, <2>1 DEF Headers
<1>4. /\ r.auth.kind \notin {"bearer", "apikey_header"}
      /\ r.auth.kind \in {"basic", "digest", "ntlm", "hawk", "aws"} => r.auth \in Auth
  BY <1>1, <1>2 DEF Optional, Auth, NoAuth
<1>5. r.body.mode = CASE p.kind = "form" -> "urlencoded"
                      [] json -> "raw"
                      [] p.kind = "file" -> "file"
                      [] p.kind = "text" /\ Counts(p) -> "raw"
                      [] p.kind = "multi" /\ p.value \in FilesThere -> "formdata_file"
                      [] p.kind = "multi" /\ p.value \notin FilesThere -> "formdata_text"
                      [] OTHER -> "none"
  BY DEF PostmanRequest
<1>6. /\ p.kind = "multi" /\ p.value \in FilesThere => r.body.mode = "formdata_file"
      /\ p.kind = "multi" /\ p.value \notin FilesThere => r.body.mode = "formdata_text"
      /\ p.kind = "form" => r.body.mode = "urlencoded"
      /\ p.kind = "file" => r.body.mode = "file"
      /\ p.kind = "text" => r.body.mode \in {"raw", "none"}
      /\ p.kind = "json" => r.body.mode \in {"raw", "none"}
      /\ p.kind = "none" => r.body.mode = "none"
  BY <1>5
<1>7. ~(p.kind = "multi" /\ p.value \in FilesThere)
  <2> SUFFICES ASSUME p.kind = "multi" /\ p.value \in FilesThere
               PROVE  FALSE
    OBVIOUS
  <2>1. r.body.mode = "formdata_file" /\ r.body.value = None
    BY <1>2, <1>6
  <2> HIDE DEF r
  <2>2. HttpFromPostman(r).payload = PostmanPayload(r)
    BY DEF HttpFromPostman, Bare
  <2>3. PostmanPayload(r).kind = "multi" /\ PostmanPayload(r).value = None
    BY <2>1 DEF PostmanPayload
  <2> QED
    BY <2>2, <2>3 DEF FormatRaises, r
<1>8. r.body.value = p.value /\ r.body.value \in STRING /\ r.body.type \in Optional(STRING)
  BY <1>1, <1>2, <1>7 DEF Body
<1>9. p.kind \in {"none", "text", "form", "file", "json", "multi"}
  BY <1>1 DEF Body
<1>10. /\ r.body.mode \in {"none", "raw", "urlencoded", "file", "formdata_text", "formdata_file"}
  BY <1>6, <1>9
<1>11. r.body.mode \in {"raw", "formdata_text", "formdata_file"} => r.body.value \in DOMAIN Guess
  <2>1. r.body.mode \in {"raw", "formdata_text", "formdata_file"} =>
            p.kind \in {"text", "json", "multi"}
    BY <1>6, <1>9
  <2> QED
    BY <1>1, <1>8, <2>1 DEF Readable
<1> HIDE DEF r
<1>12. r.method \in STRING /\ r.url \in Url /\ r.query \in Query
  BY <1>1, <1>2
<1>13. Importable(r)
  BY <1>3, <1>4, <1>8, <1>10, <1>11, <1>12 DEF Importable
<1> QED
  BY <1>13 DEF r

\* What from_har makes of a text that is said to be JSON.
LEMMA JsonPayloads ==
    ASSUME NEW text
    PROVE  /\ text \in JsonObjects /\ Dump(text) \notin Empty =>
                 JsonPayload(text) = [kind |-> "json", value |-> Dump(text), type |-> None]
           /\ text \in DOMAIN JsonStrings \ JsonObjects =>
                 JsonPayload(text) = [kind |-> "text", value |-> JsonStrings[text], type |-> None]
           /\ (/\ ~(text \in JsonObjects /\ Dump(text) \notin Empty)
               /\ text \notin DOMAIN JsonStrings \ JsonObjects)
                 => JsonPayload(text) = NoPayload
<1> DEFINE object == text \in JsonObjects /\ Dump(text) \notin Empty
           string == text \in DOMAIN JsonStrings \ JsonObjects
<1>1. JsonPayload(text) =
          CASE object -> [kind |-> "json", value |-> Dump(text), type |-> None]
            [] string -> [kind |-> "text", value |-> JsonStrings[text], type |-> None]
            [] OTHER -> NoPayload
  BY DEF JsonPayload
<1>2. ~(object /\ string)
  OBVIOUS
<1> HIDE DEF object, string
<1>3. /\ object => JsonPayload(text) = [kind |-> "json", value |-> Dump(text), type |-> None]
      /\ string => JsonPayload(text) =
                       [kind |-> "text", value |-> JsonStrings[text], type |-> None]
      /\ ~object /\ ~string => JsonPayload(text) = NoPayload
  BY <1>1, <1>2
<1> QED
  BY <1>3 DEF object, string

\* from_har makes a definition of every request of an archive.
LEMMA FromHarFields ==
    ASSUME NEW har \in HarRequests
    PROVE  /\ Writable(HttpFromHar(har))
           /\ HttpFromHar(har).named_args = FALSE
           /\ HttpFromHar(har).payload = HarPayload(har)
<1> DEFINE b == Bare(har.url, har.method)
           p == HarPayload(har)
           h == HttpFromHar(har)
<1>0. har \in HarRequest /\ har.text \in DOMAIN Guess
      /\ (har.param # None => har.param.value \in DOMAIN Guess)
  BY ConversionsAssumption DEF ConversionsAssumption
<1>1. h = [b EXCEPT !.headers = har.headers, !.query = har.query, !.payload = p]
  BY DEF HttpFromHar, HarPayload
<1>2. b \in Http /\ b.named_args = FALSE
  BY <1>0, BareType DEF HarRequest, Bare
<1>3. \/ p = NoPayload
      \/ \E kind \in {"form", "text"} : p = [kind |-> kind, value |-> har.text, type |-> None]
      \/ p = [kind |-> "json", value |-> Dump(har.text), type |-> None]
      \/ /\ har.text \in DOMAIN JsonStrings
         /\ p = [kind |-> "text", value |-> JsonStrings[har.text], type |-> None]
      \/ /\ har.param # None
         /\ p = [kind |-> "multi", value |-> har.param.value, type |-> har.param.type]
  <2>1. CASE har.text = ""
    BY <2>1 DEF HarPayload
  <2>2. CASE har.text # "" /\ har.mimeType = Json
    <3>1. p = JsonPayload(har.text)
      BY <2>2 DEF HarPayload, Json, Form
    <3> QED
      BY <3>1, JsonPayloads
  <2>3. CASE har.text # "" /\ har.mimeType # Json
    BY <2>3 DEF HarPayload, Json, Form
  <2> QED
    BY <2>1, <2>2, <2>3
<1>4. p \in Payload /\ Readable(p)
  <2>1. NoPayload \in Payload /\ Readable(NoPayload)
    BY LiteralsGiven DEF NoPayload, Payload, Optional, Readable
  <2>2. /\ Dump(har.text) \in DOMAIN Guess /\ Dump(Dump(har.text)) = Dump(har.text)
        /\ Dump(har.text) \in STRING
    BY <1>0, DumpedAgain
  <2>3. har.text \in DOMAIN JsonStrings =>
            JsonStrings[har.text] \in DOMAIN Guess /\ JsonStrings[har.text] \in STRING
    BY ConversionsAssumption, GuessGiven DEF ConversionsAssumption
  <2>4. har.param # None => har.param.value \in STRING /\ har.param.type \in Optional(STRING)
    <3>1. har.param \in Optional([value : STRING, type : Optional(STRING)])
      BY <1>0 DEF HarRequest
    <3> QED
      BY <3>1 DEF Optional
  <2>5. har.text \in STRING
    BY <1>0 DEF HarRequest
  <2> HIDE DEF p
  <2>6. CASE p = NoPayload
    BY <2>1, <2>6
  <2>7. CASE \E kind \in {"form", "text"} : p = [kind |-> kind, value |-> har.text, type |-> None]
    BY <1>0, <2>5, <2>7 DEF Payload, Readable, Optional
  <2>8. CASE p = [kind |-> "json", value |-> Dump(har.text), type |-> None]
    BY <2>2, <2>8 DEF Payload, Readable, Optional
  <2>9. CASE /\ har.text \in DOMAIN JsonStrings
             /\ p = [kind |-> "text", value |-> JsonStrings[har.text], type |-> None]
    BY <2>3, <2>9 DEF Payload, Readable, Optional
  <2>10. CASE /\ har.param # None
              /\ p = [kind |-> "multi", value |-> har.param.value, type |-> har.param.type]
    BY <1>0, <2>4, <2>10 DEF Payload, Readable, Optional
  <2> QED
    BY <1>3, <2>6, <2>7, <2>8, <2>9, <2>10
<1> HIDE DEF b, p, h
<1>6. h \in Http /\ h.payload = p /\ h.named_args = b.named_args
  BY <1>0, <1>1, <1>2, <1>4 DEF Http, HarRequest
<1> QED
  BY <1>2, <1>4, <1>6 DEF Writable, h, p

-----------------------------------------------------------------------------
\* The loaders between the first and the one that comes next have filled in
\* what they load, of the chain that load_def was called with.
AtOK ==
    at \in {"import", "flags", "script", "method", "url", "headers", "query", "payload",
            "auth", "proxy", "timeout", "retry", "custom_proxy", "certificate",
            "output", "ready", "exported", "raised"}

Past(S) == at \notin S \cup {"import", "raised"}
ToQuery == {"flags", "script", "method", "url", "headers", "query"}
ToProxy == ToQuery \cup {"payload", "auth", "proxy"}

ChainInv == /\ at = "import" => chain = <<>>
            /\ at # "import" => Chain(chain)

FilledIn ==
    /\ DOMAIN httpdef = DOMAIN NoHttpDef
    /\ Past({"flags"}) =>
           httpdef.clear = Flag(chain, "clear") /\ httpdef.insecure = Flag(chain, "insecure")
    /\ Past({"flags", "script"}) => httpdef.script = LoadedScript(chain)
    /\ Past({"flags", "script", "method"}) => httpdef.method = LoadedMethod(Head(chain))
    /\ Past(ToQuery \ {"headers", "query"}) => httpdef.url = WithScheme(LoadedUrl(chain))
    /\ Past(ToQuery \ {"query"}) => httpdef.headers = LoadedHeaders(chain)
    /\ Past(ToQuery) => httpdef.query = LoadedQuery(chain)
    /\ Past(ToQuery \cup {"payload"}) =>
           /\ ~PayloadRaises(Head(chain).payload)
           /\ httpdef.payload = LoadedPayload(Head(chain).payload)
    /\ Past(ToQuery \cup {"payload", "auth"}) =>
           /\ ~AuthRaises(chain, httpdef.url) /\ httpdef.auth = LoadedAuth(chain, httpdef.url)
    /\ Past(ToProxy \cup {"timeout"}) => httpdef.timeout = LoadedTimeout(chain)
    /\ Past(ToProxy \cup {"timeout", "retry", "custom_proxy"}) =>
           httpdef.proxy = CurrentOrBase(chain, "proxy")
    /\ Past(ToProxy \cup {"timeout", "retry", "custom_proxy", "certificate"}) =>
           httpdef.certificate = CurrentOrBase(chain, "certificate")

\* A definition that is loaded again is the text of what was made of the
\* request that was loaded before, or of what was imported.
OriginInv ==
    origin # None =>
        \/ /\ origin.via = "render" /\ readsFiles
           /\ Def(origin.from)
           /\ ~FormatRaises(HttpFromReq(origin.from))
           /\ chain = <<Formatted(HttpFromReq(origin.from))>>
        \/ /\ origin.via = "postman" /\ ~readsFiles
           /\ Def(origin.from)
           /\ ~FormatRaises(HttpFromPostman(PostmanRequest(origin.from)))
           /\ chain = <<Formatted(HttpFromPostman(PostmanRequest(origin.from)))>>
        \/ /\ origin.via = "item" /\ ~readsFiles /\ origin.from \in PostmanItems
           /\ chain = <<Formatted(HttpFromPostman(origin.from))>>
        \/ /\ origin.via = "har" /\ ~readsFiles /\ origin.from \in HarRequests
           /\ chain = <<Formatted(HttpFromHar(origin.from))>>

\* A document is made of the request as it is.
OutputInv ==
    output # None =>
        /\ at = "exported" /\ readsFiles
        /\ output \in {[via |-> "har", document |-> HarOf(httpdef)],
                       [via |-> "curl", document |-> CurlOf(httpdef)]}

ConvInv == AtOK /\ readsFiles \in BOOLEAN /\ ChainInv /\ FilledIn /\ OriginInv /\ OutputInv

\* After the last loader, every loader has filled in its part.
LEMMA ReadyIsLoaded ==
    ASSUME FilledIn, at \in {"ready", "exported"}
    PROVE  IsLoaded(httpdef, chain)
BY DEF FilledIn, Past, ToQuery, ToProxy, IsLoaded

\* After the last loader, the request is what Def says.
LEMMA ReadyIsDef ==
    ASSUME FilledIn, ChainInv, at \in {"ready", "exported"}
    PROVE  Def(httpdef)
BY ReadyIsLoaded, LoadedIsDef DEF ChainInv

\* Before the first loader, nothing has to be filled in.
LEMMA StartFilled ==
    ASSUME httpdef = NoHttpDef, at \in {"flags", "import"}
    PROVE  FilledIn
BY DEF FilledIn, Past, ToQuery, ToProxy

\* The invariant holds at first.
LEMMA ConvInitInv ==
    ASSUME ConvInit
    PROVE  ConvInv
<1>1. at \in {"flags", "import"} /\ httpdef = NoHttpDef
  BY DEF ConvInit, StartsLoading
<1>2. FilledIn
  BY <1>1, StartFilled
<1>3. AtOK /\ readsFiles \in BOOLEAN /\ OriginInv /\ OutputInv
  BY <1>1 DEF AtOK, ConvInit, OriginInv, OutputInv
<1>4. ChainInv
  BY ChainsGiven DEF ConvInit, StartsLoading, ChainInv
<1> QED
  BY <1>2, <1>3, <1>4 DEF ConvInv

\* A loader fills in its own and leaves the rest.
LEMMA LoadsFill ==
    ASSUME ConvInv, Loads
    PROVE  FilledIn' /\ AtOK' /\ UNCHANGED <<chain, readsFiles>>
<1> USE DEF FilledIn, Past, ToQuery, ToProxy, AtOK, LoadsNext, Raises
<1>0. FilledIn /\ UNCHANGED <<chain, readsFiles>>
  BY DEF ConvInv, Loads, LoadExtraFlags, LoadTestScript, LoadMethod, LoadUrl, LoadHeaders,
         LoadQuery, LoadPayload, PayloadRefused, LoadAuth, AuthRefused, LoadProxy,
         ProxyRefused, LoadTimeout, LoadRetry, LoadCustomProxy, LoadCertificate, LoadOutput
<1>a. DOMAIN NoHttpDef = {"clear", "insecure", "script", "method", "url", "headers", "query",
                          "payload", "auth", "timeout", "total", "status_forcelist",
                          "backoff_factor", "proxy", "certificate", "output"}
  BY DEF NoHttpDef
<1>b. /\ PayloadRaises(Head(chain).payload)' = PayloadRaises(Head(chain).payload)
      /\ LoadedPayload(Head(chain).payload)' = LoadedPayload(Head(chain).payload)
  BY <1>0 DEF PayloadRaises, LoadedPayload, Typed
<1>1. CASE LoadExtraFlags
  BY <1>0, <1>a, <1>b, <1>1 DEF LoadExtraFlags
<1>2. CASE LoadTestScript
  BY <1>0, <1>a, <1>b, <1>2 DEF LoadTestScript
<1>3. CASE LoadMethod
  BY <1>0, <1>a, <1>b, <1>3 DEF LoadMethod
<1>4. CASE LoadUrl
  BY <1>0, <1>a, <1>b, <1>4 DEF LoadUrl
<1>5. CASE LoadHeaders
  BY <1>0, <1>a, <1>b, <1>5 DEF LoadHeaders
<1>6. CASE LoadQuery
  BY <1>0, <1>a, <1>b, <1>6 DEF LoadQuery
<1>7. CASE LoadPayload
  BY <1>0, <1>a, <1>b, <1>7 DEF LoadPayload
<1>8. CASE PayloadRefused \/ AuthRefused \/ ProxyRefused
  BY <1>0, <1>a, <1>b, <1>8 DEF PayloadRefused, AuthRefused, ProxyRefused
<1>9. CASE LoadAuth
  BY <1>0, <1>a, <1>b, <1>9 DEF LoadAuth
<1>10. CASE LoadProxy
  BY <1>0, <1>a, <1>b, <1>10 DEF LoadProxy
<1>11. CASE LoadTimeout
  BY <1>0, <1>a, <1>b, <1>11 DEF LoadTimeout
<1>12. CASE LoadRetry
  BY <1>0, <1>a, <1>b, <1>12 DEF LoadRetry
<1>13. CASE LoadCustomProxy
  BY <1>0, <1>a, <1>b, <1>13 DEF LoadCustomProxy
<1>14. CASE LoadCertificate
  BY <1>0, <1>a, <1>b, <1>14 DEF LoadCertificate
<1>15. CASE LoadOutput
  BY <1>0, <1>a, <1>b, <1>15 DEF LoadOutput
<1> QED
  BY <1>0, <1>1, <1>2, <1>3, <1>4, <1>5, <1>6, <1>7, <1>8, <1>9, <1>10, <1>11, <1>12, <1>13,
     <1>14, <1>15 DEF Loads

\* What is known of a request that was loaded stays known.
LEMMA DefStays ==
    ASSUME UNCHANGED <<readsFiles, origin>>
    PROVE  Def(origin.from)' = Def(origin.from)
BY DEF Def, PayloadRaises, LoadedPayload, Typed

\* A loader keeps it.
LEMMA LoadKeeps ==
    ASSUME ConvInv, Load
    PROVE  ConvInv'
<1>1. FilledIn' /\ AtOK' /\ UNCHANGED <<chain, readsFiles>>
  BY LoadsFill DEF Load
<1>2. UNCHANGED <<origin, output>>
  BY DEF Load
<1>3. at \notin {"import", "exported"} /\ at' # "import"
  BY DEF Load, Loads, LoadExtraFlags, LoadTestScript, LoadMethod, LoadUrl, LoadHeaders,
         LoadQuery, LoadPayload, PayloadRefused, LoadAuth, AuthRefused, LoadProxy,
         ProxyRefused, LoadTimeout, LoadRetry, LoadCustomProxy, LoadCertificate, LoadOutput,
         LoadsNext, Raises
<1>4. ChainInv' /\ OutputInv'
  BY <1>1, <1>2, <1>3 DEF ConvInv, ChainInv, OutputInv, Chain
<1>5. OriginInv'
  <2>1. Def(origin.from)' = Def(origin.from)
    BY <1>1, <1>2, DefStays
  <2> QED
    BY <1>1, <1>2, <2>1 DEF ConvInv, OriginInv
<1> QED
  BY <1>1, <1>4, <1>5 DEF ConvInv

\* A definition that is loaded again keeps it.
LEMMA AgainKeeps ==
    ASSUME ConvInv, NEW made, Writable(made), NEW via, NEW from, LoadsAgain(made, via, from),
           at \in {"ready", "import"}, OriginInv'
    PROVE  ConvInv'
<1>1. /\ chain' = <<Formatted(made)>> /\ at' = "flags" /\ httpdef' = NoHttpDef
      /\ UNCHANGED <<readsFiles, output>>
  BY DEF LoadsAgain
<1>2. Chain(<<Formatted(made)>>)
  BY FormattedType, ChainOne DEF Writable
<1>3. ChainInv'
  BY <1>1, <1>2 DEF ChainInv, Chain
<1>4. FilledIn'
  BY <1>1 DEF FilledIn, Past, ToQuery, ToProxy
<1>5. AtOK' /\ OutputInv'
  BY <1>1 DEF AtOK, ConvInv, OutputInv
<1> QED
  BY <1>1, <1>3, <1>4, <1>5 DEF ConvInv

\* A definition that cannot be written keeps it.
LEMMA FailsKeeps ==
    ASSUME ConvInv, NEW made, Fails(made), Loaded
    PROVE  ConvInv'
<1>1. /\ at' = "raised" /\ UNCHANGED <<chain, readsFiles, httpdef, origin, output>>
      /\ at = "ready" /\ origin = None
  BY DEF Fails, Loaded
<1>2. ChainInv' /\ AtOK' /\ OutputInv' /\ OriginInv'
  BY <1>1 DEF ConvInv, ChainInv, Chain, AtOK, OutputInv, OriginInv
<1>3. FilledIn'
  BY <1>1 DEF ConvInv, FilledIn, Past, ToQuery, ToProxy
<1> QED
  BY <1>1, <1>2, <1>3 DEF ConvInv

\* An export keeps it.
LEMMA ExportKeeps ==
    ASSUME ConvInv, ExportHar \/ ExportCurl
    PROVE  ConvInv'
<1>1. /\ at = "ready" /\ at' = "exported" /\ origin = None /\ readsFiles
      /\ UNCHANGED <<chain, readsFiles, httpdef, origin>>
      /\ output' \in {[via |-> "har", document |-> HarOf(httpdef)],
                      [via |-> "curl", document |-> CurlOf(httpdef)]}
  BY DEF ExportHar, ExportCurl, Exports, Loaded
<1>2. ChainInv' /\ AtOK' /\ OriginInv'
  BY <1>1 DEF ConvInv, ChainInv, Chain, AtOK, OriginInv
<1>3. OutputInv'
  BY <1>1 DEF OutputInv
<1>4. FilledIn'
  <2>1. /\ PayloadRaises(Head(chain).payload)' = PayloadRaises(Head(chain).payload)
        /\ LoadedPayload(Head(chain).payload)' = LoadedPayload(Head(chain).payload)
    BY <1>1 DEF PayloadRaises, LoadedPayload, Typed
  <2> QED
    BY <1>1, <2>1 DEF ConvInv, FilledIn, Past, ToQuery, ToProxy
<1> QED
  BY <1>1, <1>2, <1>3, <1>4 DEF ConvInv

\* Every step keeps it.
LEMMA ConvNextInv ==
    ASSUME ConvInv, ConvNext
    PROVE  ConvInv'
<1>1. CASE Load
  BY <1>1, LoadKeeps
<1>2. CASE Render
  <2>1. Loaded /\ readsFiles
    BY <1>2 DEF Render
  <2>2. Def(httpdef)
    BY <2>1, ReadyIsDef DEF ConvInv, Loaded
  <2>3. CASE Fails(HttpFromReq(httpdef))
    BY <2>1, <2>3, FailsKeeps
  <2>4. CASE LoadsAgain(HttpFromReq(httpdef), "render", httpdef)
    <3>1. Writable(HttpFromReq(httpdef))
      BY <2>2, FromReqFields
    <3>2. Def(origin.from)'
      BY <2>2, <2>4 DEF LoadsAgain, Def, PayloadRaises, LoadedPayload, Typed
    <3>3. OriginInv'
      BY <2>1, <2>4, <3>2 DEF LoadsAgain, OriginInv
    <3> QED
      BY <2>1, <2>4, <3>1, <3>3, AgainKeeps DEF Loaded
  <2> QED
    BY <1>2, <2>3, <2>4 DEF Render
<1>3. CASE ThroughPostman
  <2>1. Loaded /\ ~readsFiles
    BY <1>3 DEF ThroughPostman
  <2>2. Def(httpdef)
    BY <2>1, ReadyIsDef DEF ConvInv, Loaded
  <2> DEFINE made == HttpFromPostman(PostmanRequest(httpdef))
  <2>3. CASE Fails(made)
    BY <2>1, <2>3, FailsKeeps
  <2>4. CASE LoadsAgain(made, "postman", httpdef)
    <3>1. Writable(made)
      BY <2>2, <2>4, RequestIsImportable, FromPostmanFields DEF LoadsAgain
    <3>2. Def(origin.from)'
      BY <2>2, <2>4 DEF LoadsAgain, Def, PayloadRaises, LoadedPayload, Typed
    <3>3. OriginInv'
      BY <2>1, <2>4, <3>2 DEF LoadsAgain, OriginInv
    <3> QED
      BY <2>1, <2>4, <3>1, <3>3, AgainKeeps DEF Loaded
  <2> QED
    BY <1>3, <2>3, <2>4 DEF ThroughPostman
<1>4. CASE ImportItem
  <2>1. PICK item \in PostmanItems : LoadsAgain(HttpFromPostman(item), "item", item)
    BY <1>4 DEF ImportItem
  <2>2. at = "import" /\ ~readsFiles
    BY <1>4 DEF ImportItem
  <2>3. OriginInv'
    BY <2>1, <2>2 DEF LoadsAgain, OriginInv
  <2>4. Writable(HttpFromPostman(item))
    BY ItemsAreImportable, FromPostmanFields
  <2> QED
    BY <2>1, <2>2, <2>3, <2>4, AgainKeeps
<1>5. CASE ImportHar
  <2>1. PICK har \in HarRequests : LoadsAgain(HttpFromHar(har), "har", har)
    BY <1>5 DEF ImportHar
  <2>2. at = "import" /\ ~readsFiles
    BY <1>5 DEF ImportHar
  <2>3. OriginInv'
    BY <2>1, <2>2 DEF LoadsAgain, OriginInv
  <2>4. Writable(HttpFromHar(har))
    BY FromHarFields
  <2> QED
    BY <2>1, <2>2, <2>3, <2>4, AgainKeeps
<1>6. CASE ExportHar \/ ExportCurl
  BY <1>6, ExportKeeps
<1> QED
  BY <1>1, <1>2, <1>3, <1>4, <1>5, <1>6 DEF ConvNext

\* A step that changes nothing keeps it.
LEMMA ConvStutterInv ==
    ASSUME ConvInv, UNCHANGED convVars
    PROVE  ConvInv'
<1>1. UNCHANGED <<chain, readsFiles, at, httpdef, origin, output>>
  BY DEF convVars, loading
<1>2. ChainInv' /\ AtOK' /\ OutputInv'
  BY <1>1 DEF ConvInv, ChainInv, Chain, AtOK, OutputInv
<1>3. OriginInv'
  <2>1. Def(origin.from)' = Def(origin.from)
    BY <1>1, DefStays
  <2> QED
    BY <1>1, <2>1 DEF ConvInv, OriginInv
<1>4. FilledIn'
  <2>1. /\ PayloadRaises(Head(chain).payload)' = PayloadRaises(Head(chain).payload)
        /\ LoadedPayload(Head(chain).payload)' = LoadedPayload(Head(chain).payload)
    BY <1>1 DEF PayloadRaises, LoadedPayload, Typed
  <2> QED
    BY <1>1, <2>1 DEF ConvInv, FilledIn, Past, ToQuery, ToProxy
<1> QED
  BY <1>1, <1>2, <1>3, <1>4 DEF ConvInv

\* What the proofs below know of every state.
LEMMA ConvInvariant == ConvSpec => []ConvInv
<1>1. ConvInit => ConvInv
  BY ConvInitInv
<1>2. ConvInv /\ [ConvNext]_convVars => ConvInv'
  BY ConvNextInv, ConvStutterInv
<1> QED
  BY <1>1, <1>2, PTL DEF ConvSpec

-----------------------------------------------------------------------------
\* What the invariant says of the type of a request that is ready.
LEMMA TypesFromInv ==
    ASSUME ConvInv
    PROVE  ConvTypeOK
<1>1. chain \in Seq(Http)
  <2>1. <<>> \in Seq(Http)
    OBVIOUS
  <2> QED
    BY <2>1 DEF ConvInv, ChainInv, Chain
<1>2. ASSUME at = "ready"
      PROVE  None \notin {httpdef.method, httpdef.url, httpdef.headers, httpdef.query,
                          httpdef.payload}
  <2>1. Def(httpdef)
    BY <1>2, ReadyIsDef DEF ConvInv
  <2>2. /\ httpdef.method \in STRING /\ httpdef.url \in Url /\ httpdef.headers \in Headers
        /\ httpdef.query \in Query
        /\ httpdef.payload \in Body
    BY <2>1 DEF Def
  <2> QED
    BY <2>2, NoneGiven
<1> QED
  BY <1>1, <1>2 DEF ConvInv, AtOK, OriginInv, OutputInv, ConvTypeOK

\* A signature is for the host.
LEMMA SignedFromInv ==
    ASSUME ConvInv
    PROVE  SignedForItsHost
<1> SUFFICES ASSUME at = "ready", httpdef.auth # None, httpdef.auth.kind = "aws"
             PROVE  LET host == httpdef.url.host
                        aws == AwsFromHost(httpdef.auth, host)
                    IN /\ Len(host) >= 4 /\ SubSeq(host, Len(host) - 1, Len(host))
                                                = <<"amazonaws", "com">> =>
                             /\ host[Len(host) - 3] \in KnownServices =>
                                   httpdef.auth.service = host[Len(host) - 3]
                             /\ host[Len(host) - 2] \in KnownRegions =>
                                   httpdef.auth.region = host[Len(host) - 2]
                       /\ aws = [service |-> httpdef.auth.service,
                                 region |-> httpdef.auth.region]
  BY DEF SignedForItsHost
<1> DEFINE host == httpdef.url.host
           auth == httpdef.auth
<1>1. /\ AwsFromHost(auth, host) = [service |-> auth.service, region |-> auth.region]
      /\ host \in Seq(STRING)
  BY ReadyIsDef DEF ConvInv, Def, Url
<1> HIDE DEF host, auth
<1>2. ASSUME Len(host) >= 4, SubSeq(host, Len(host) - 1, Len(host)) = <<"amazonaws", "com">>
      PROVE  /\ host[Len(host) - 3] \in KnownServices => auth.service = host[Len(host) - 3]
             /\ host[Len(host) - 2] \in KnownRegions => auth.region = host[Len(host) - 2]
  <2> DEFINE L == Len(host)
             last == SubSeq(host, L - 1, L)
  <2>1. L \in Nat /\ L >= 4
    BY <1>1, <1>2
  <2>2. last[1] = host[L - 1] /\ last[2] = host[L]
    BY <1>1, <2>1
  <2>3. last = <<"amazonaws", "com">>
    BY <1>2
  <2> HIDE DEF last
  <2>4. IsAwsHost(host)
    BY <2>1, <2>2, <2>3 DEF IsAwsHost
  <2>5. /\ Len(Labels(host)) = L - 2 /\ Len(Labels(host)) > 1
        /\ Labels(host)[Len(Labels(host)) - 1] = host[L - 3]
        /\ LastOf(host) = host[L - 2] /\ LastOf(host) \in STRING
    <3>1. /\ Len(Labels(host)) = L - 2 /\ LastOf(host) = host[L - 2] /\ LastOf(host) \in STRING
          /\ \A i \in 1..L - 2 : Labels(host)[i] = host[i]
      BY <1>1, <2>4, LabelsOf
    <3>2. L - 3 \in 1..L - 2 /\ (L - 2) - 1 = L - 3 /\ L - 2 > 1
      BY <2>1
    <3>3. Labels(host)[L - 3] = host[L - 3]
      BY <3>1, <3>2
    <3> HIDE DEF L
    <3> QED
      BY <3>1, <3>2, <3>3
  <2>6. /\ auth.service = ServiceOfMore(auth.service, host)
        /\ auth.region = OrDefault(RegionOfMore(auth.region, host))
    BY <1>1, <2>4, <2>5, AwsMore
  <2>7. host[L - 3] \in KnownServices => auth.service = host[L - 3]
    BY <2>5, <2>6 DEF ServiceOfMore
  <2>8. host[L - 2] \in KnownRegions => auth.region = host[L - 2]
    BY <2>5, <2>6, NoneGiven DEF RegionOfMore, OrDefault
  <2> QED
    BY <2>7, <2>8
<1> QED
  BY <1>1, <1>2 DEF host, auth

\* Every payload that is read from where it is has a content type.
LEMMA PayloadHasType ==
    ASSUME NEW def, Def(def), readsFiles, def.payload.kind # "none"
    PROVE  def.payload.header # None
<1>1. PICK p \in Payload : Readable(p) /\ ~PayloadRaises(p) /\ def.payload = LoadedPayload(p)
  BY DEF Def
<1> DEFINE q == LoadedPayload(p)
<1>3. p.kind \in {"text", "file"} => Typed(p.type, p.value) # None
  BY <1>1, GuessGiven, NoneGiven DEF Typed, Readable, PayloadRaises
<1>4. CASE p.kind \in {"text", "file"}
  <2>1. q.header = Typed(p.type, p.value)
    BY <1>4 DEF LoadedPayload
  <2> QED
    BY <1>1, <1>3, <1>4, <2>1
<1>5. CASE p.kind \in {"form", "json", "multi"}
  <2>1. /\ p.kind = "form" => q.header = "application/x-www-form-urlencoded"
        /\ p.kind = "json" => q.header = "application/json"
        /\ p.kind = "multi" => q.header = "multipart/form-data"
    BY DEF LoadedPayload
  <2> QED
    BY <1>1, <1>5, <2>1, LiteralsGiven, NoneGiven
<1>6. p.kind \notin {"none", "list"}
  BY <1>1 DEF LoadedPayload, PayloadRaises
<1> QED
  BY <1>4, <1>5, <1>6 DEF Payload

\* No payload has no content type.
LEMMA NoPayloadHasNone ==
    ASSUME NEW def, Def(def), def.payload.kind = "none"
    PROVE  def.payload.header = None
<1>1. PICK p \in Payload : def.payload = LoadedPayload(p)
  BY DEF Def
<1>2. p.kind = "none"
  BY <1>1 DEF LoadedPayload
<1> QED
  BY <1>1, <1>2 DEF LoadedPayload

\* A document tells what is sent.
LEMMA ExportsFromInv ==
    ASSUME ConvInv
    PROVE  ExportsTellTheRequest
<1> SUFFICES ASSUME output # None
             PROVE  LET told == output.document
                        sent == Sent(httpdef)
                        auth == IF httpdef.auth = None THEN "none" ELSE httpdef.auth.kind
                    IN /\ told.url = sent.url /\ told.query = sent.query
                       /\ told.method = sent.method
                       /\ output.via = "curl" /\ httpdef.payload.kind \notin {"file", "multi"} =>
                             told.headers[ContentType] = sent.headers[ContentType]
                       /\ output.via = "har" /\ auth \in {"basic", "aws"} =>
                             told.headers["authorization"] = auth
                       /\ output.via = "har" /\ told.text # "" =>
                             None \notin {told.mimeType, sent.headers[ContentType]}
  BY DEF ExportsTellTheRequest
<1> DEFINE def == httpdef
           p == def.payload
           auth == IF def.auth = None THEN "none" ELSE def.auth.kind
<1>1. /\ at = "exported" /\ readsFiles
      /\ output \in {[via |-> "har", document |-> HarOf(def)],
                     [via |-> "curl", document |-> CurlOf(def)]}
  BY DEF ConvInv, OutputInv
<1>2. Def(def)
  BY <1>1, ReadyIsDef DEF ConvInv
<1> HIDE DEF def
<1>3. def.headers \in Headers /\ ContentType \in HeaderNames /\ "authorization" \in HeaderNames
  BY <1>2, ConversionsAssumption DEF Def, ConversionsAssumption, ContentType
<1>4. Sent(def).headers \in [HeaderNames -> {def.headers[h] : h \in HeaderNames} \cup {p.header}]
  BY <1>3 DEF Sent, Headers
<1>5. Sent(def).headers[ContentType] =
          IF def.headers[ContentType] = None THEN p.header ELSE def.headers[ContentType]
  BY <1>3 DEF Sent, Headers
<1>6. CASE output = [via |-> "curl", document |-> CurlOf(def)]
  <2>1. /\ CurlOf(def).url = def.url /\ CurlOf(def).query = def.query
        /\ CurlOf(def).method = def.method
    BY DEF CurlOf
  <2>2. CurlOf(def).headers[ContentType] =
            IF def.headers[ContentType] = None /\ p.kind \in {"json", "form", "text"}
            THEN p.header ELSE def.headers[ContentType]
    BY <1>3 DEF CurlOf, Headers
  <2>3. p.kind \in {"none", "text", "form", "file", "json", "multi"}
    BY <1>2 DEF Def, Body
  <2>4. p.kind \notin {"file", "multi"} =>
            CurlOf(def).headers[ContentType] = Sent(def).headers[ContentType]
    BY <1>2, <1>5, <2>2, <2>3, NoPayloadHasNone
  <2> QED
    BY <1>6, <2>1, <2>4 DEF Sent, def
<1>7. CASE output = [via |-> "har", document |-> HarOf(def)]
  <2>1. /\ HarOf(def).url = def.url /\ HarOf(def).query = def.query
        /\ HarOf(def).method = def.method
        /\ HarOf(def).mimeType = IF Counts(p) THEN p.header ELSE None
        /\ HarOf(def).text = CASE p.kind = "file" /\ p.value \in Binary -> "error"
                               [] ~Counts(p) -> ""
                               [] OTHER -> p.value
        /\ HarOf(def).headers =
              CASE auth = "basic" -> [def.headers EXCEPT !["authorization"] = auth]
                [] auth = "aws" -> [Sent(def).headers EXCEPT !["authorization"] = auth]
                [] OTHER -> def.headers
    BY DEF HarOf
  <2>2. auth \in {"basic", "aws"} => HarOf(def).headers["authorization"] = auth
    <3> HIDE DEF auth
    <3> QED
      BY <1>3, <1>4, <2>1 DEF Headers
  <2>3. HarOf(def).text # "" => Counts(p)
    <3>1. p.kind = "file" => Counts(p)
      BY DEF Counts
    <3> QED
      BY <2>1, <3>1
  <2>4. Counts(p) => p.kind # "none"
    BY DEF Counts
  <2>5. HarOf(def).text # "" =>
            None \notin {HarOf(def).mimeType, Sent(def).headers[ContentType]}
    BY <1>1, <1>2, <1>5, <2>1, <2>3, <2>4, PayloadHasType
  <2> QED
    BY <1>7, <2>1, <2>2, <2>5 DEF Sent, def
<1> QED
  BY <1>1, <1>6, <1>7

-----------------------------------------------------------------------------
\* What load_def makes of a definition that extends nothing, f is its text.
LEMMA LoadedOne ==
    ASSUME NEW f, Writable(f), NEW def, IsLoaded(def, <<f>>)
    PROVE  /\ def.clear = Flag(<<f>>, "clear") /\ def.insecure = Flag(<<f>>, "insecure")
           /\ "no_parent_script" \notin f.extra_args => def.script = f.script_wrap
           /\ f.method # None => def.method = f.method
           /\ def.url = WithScheme(f.url)
           /\ \A h \in HeaderNames :
                 def.headers[h] = IF f.headers[h] = None THEN DefaultHeaders[h] ELSE f.headers[h]
           /\ def.headers \in Headers
           /\ def.query = f.query
           /\ ~PayloadRaises(f.payload) /\ def.payload = LoadedPayload(f.payload)
           /\ def.auth = LoadedAuth(<<f>>, def.url) /\ CurrentOrBase(<<f>>, "authwrap") = f.authwrap
           /\ def.certificate = f.certificate
<1>0. f \in Http /\ Readable(f.payload)
  BY DEF Writable
<1> DEFINE c == <<f>>
<1>1. Chain(c) /\ Head(c) = f /\ DOMAIN c = {1} /\ c[1] = f
  BY <1>0, ChainOne
<1>2. /\ CurrentOrBase(c, "script_wrap") = f.script_wrap
      /\ CurrentOrBase(c, "authwrap") = f.authwrap
      /\ CurrentOrBase(c, "certificate") = f.certificate
  <2>1. \A attr : CurrentOrBase(c, attr) = f[attr]
    BY <1>0, CurrentOrBaseOne
  <2> QED
    BY <2>1
<1>a. LoadedUrl(c) = f.url /\ LoadedQuery(c) = f.query
  BY <1>0, UrlOne, QueryOne
<1>b. /\ \A h \in HeaderNames : LoadedHeaders(c)[h] =
            IF f.headers[h] = None THEN DefaultHeaders[h] ELSE f.headers[h]
      /\ LoadedHeaders(c) \in Headers
  BY <1>0, <1>1, HeadersOne, HeadersType
<1> HIDE DEF c
<1>3. "no_parent_script" \notin f.extra_args => LoadedScript(c) = f.script_wrap
  BY <1>1, <1>2 DEF LoadedScript
<1>4. f.method # None => LoadedMethod(Head(c)) = f.method
  BY <1>1 DEF LoadedMethod
<1>5. IsLoaded(def, c)
  BY DEF c
<1>6. /\ def.clear = Flag(c, "clear") /\ def.insecure = Flag(c, "insecure")
      /\ "no_parent_script" \notin f.extra_args => def.script = f.script_wrap
      /\ f.method # None => def.method = f.method
      /\ def.certificate = f.certificate
  BY <1>1, <1>2, <1>3, <1>4, <1>5 DEF IsLoaded
<1>7. /\ def.url = WithScheme(f.url) /\ def.headers = LoadedHeaders(c) /\ def.query = f.query
      /\ ~PayloadRaises(f.payload) /\ def.payload = LoadedPayload(f.payload)
      /\ def.auth = LoadedAuth(c, def.url) /\ CurrentOrBase(c, "authwrap") = f.authwrap
  BY <1>1, <1>2, <1>a, <1>5 DEF IsLoaded
<1> QED
  BY <1>b, <1>6, <1>7 DEF c

\* What format_http leaves of a definition.
LEMMA FormattedFields ==
    ASSUME NEW h, Writable(h)
    PROVE  LET f == Formatted(h) IN
           /\ Writable(f)
           /\ \A n \in HeaderNames :
                 f.headers[n] = IF h.headers[n] = "" THEN None ELSE h.headers[n]
           /\ f.extra_args = h.extra_args \ {"no_parent_script"}
           /\ f.payload = IF h.payload.kind \in {"form", "json"} /\ ~Counts(h.payload)
                          THEN NoPayload ELSE h.payload
           /\ f.url = h.url /\ f.method = h.method /\ f.query = h.query
           /\ f.authwrap = h.authwrap /\ f.certificate = h.certificate
           /\ f.script_wrap = h.script_wrap
<1>1. h \in Http
  BY DEF Writable
<1>2. Writable(Formatted(h))
  BY FormattedType
<1> QED
  BY <1>1, <1>2 DEF Formatted, Http

\* A signature that came out of load_auth comes out of it again.
LEMMA AuthAgain ==
    ASSUME NEW f, Writable(f), NEW url \in Url, f.authwrap \in Optional(Auth),
           f.authwrap # None /\ f.authwrap.kind = "aws" =>
               AwsFromHost(f.authwrap, url.host)
                   = [service |-> f.authwrap.service, region |-> f.authwrap.region]
    PROVE  LoadedAuth(<<f>>, url) = f.authwrap
<1> DEFINE wrap == f.authwrap
           aws == AwsFromHost(wrap, url.host)
<1>1. CurrentOrBase(<<f>>, "authwrap") = wrap
  BY CurrentOrBaseOne DEF Writable
<1>2. CASE wrap = None \/ wrap.kind # "aws"
  BY <1>1, <1>2 DEF LoadedAuth
<1>3. CASE wrap # None /\ wrap.kind = "aws"
  <2>1. LoadedAuth(<<f>>, url) = [wrap EXCEPT !.service = aws.service, !.region = aws.region]
    BY <1>1, <1>3 DEF LoadedAuth
  <2>2. wrap \in Auth /\ aws.service = wrap.service /\ aws.region = wrap.region
    BY <1>3 DEF Optional
  <2> HIDE DEF wrap, aws
  <2>3. [wrap EXCEPT !.service = aws.service, !.region = aws.region] = wrap
    BY <2>2 DEF Auth
  <2> QED
    BY <2>1, <2>3 DEF wrap, aws
<1> QED
  BY <1>2, <1>3

\* The payload that is shown is sent as the one that it was made of.
LEMMA PayloadShown ==
    ASSUME NEW def, Def(def), readsFiles, NEW g \in Payload,
           g = LET p == PayloadFromReq(def.payload)
               IN IF p.kind \in {"form", "json"} /\ ~Counts(p) THEN NoPayload ELSE p,
           Counts(def.payload) \/ def.payload.kind \in {"none", "text"}
    PROVE  LET p == def.payload
               q == LoadedPayload(g)
           IN /\ q.kind = p.kind /\ q.value = p.value /\ q.part = p.part
              /\ p.kind \in {"text", "file"} => q.header = Guess[p.value]
              /\ p.kind \notin {"text", "file"} => q.header = p.header
<1> DEFINE p == def.payload
           q == LoadedPayload(g)
<1>1. PICK o \in Payload : Readable(o) /\ ~PayloadRaises(o) /\ p = LoadedPayload(o)
  BY DEF Def
<1>2. /\ p.kind = o.kind /\ p.value = o.value
      /\ o.kind \in {"none", "text", "form", "file", "json", "multi"}
      /\ p.part = IF o.kind = "multi" THEN Typed(o.type, o.value) ELSE None
  BY <1>1 DEF LoadedPayload, Payload, PayloadRaises
<1>3. p.kind = "multi" => p.part # None
  BY <1>1, <1>2, GuessGiven, NoneGiven DEF Typed, Readable
<1>4. p.kind = "form" \/ p.kind = "json" => Counts(p)
  OBVIOUS
<1>5. g = [kind |-> p.kind, value |-> p.value, type |-> p.part]
  <2> DEFINE r == [kind |-> p.kind, value |-> p.value, type |-> p.part]
  <2>1. PayloadFromReq(p) = r
    BY <1>4 DEF PayloadFromReq
  <2>2. r.kind \in {"form", "json"} => Counts(r)
    BY <1>4 DEF Counts
  <2> QED
    BY <2>1, <2>2
<1>6. g.kind = p.kind /\ g.value = p.value /\ g.type = p.part
  BY <1>5
<1>7. q.kind = p.kind /\ q.value = p.value
  BY <1>6 DEF LoadedPayload
<1>8. q.part = p.part
  <2>1. q.part = IF g.kind = "multi" THEN Typed(g.type, g.value) ELSE None
    BY DEF LoadedPayload
  <2> QED
    BY <1>2, <1>3, <1>6, <2>1 DEF Typed
<1>9. p.kind \in {"text", "file"} => q.header = Guess[p.value]
  <2> SUFFICES ASSUME p.kind \in {"text", "file"}
               PROVE  q.header = Guess[p.value]
    OBVIOUS
  <2>1. q.header = Typed(g.type, g.value)
    BY <1>6 DEF LoadedPayload
  <2> QED
    BY <1>2, <1>6, <2>1 DEF Typed
<1>10. p.kind \notin {"text", "file"} => q.header = p.header
  BY <1>1, <1>2, <1>6 DEF LoadedPayload
<1> QED
  BY <1>7, <1>8, <1>9, <1>10

\* A definition that is shown sends what was sent.
LEMMA ShownFromInv ==
    ASSUME ConvInv
    PROVE  ShownSendsTheSame
<1> SUFFICES ASSUME at = "ready", origin # None, origin.via = "render", ShowsAll(origin.from)
             PROVE  /\ Sent(httpdef) = Sent(origin.from)
                    /\ \A part \in {"clear", "insecure", "certificate", "script"} :
                          httpdef[part] = origin.from[part]
  BY DEF ShownSendsTheSame
<1> DEFINE def == origin.from
           h == HttpFromReq(def)
           f == Formatted(h)
           d == httpdef
<1>1. readsFiles /\ Def(def) /\ chain = <<f>>
  BY DEF ConvInv, OriginInv
<1>2. IsLoaded(d, <<f>>)
  BY <1>1, ReadyIsLoaded DEF ConvInv
<1>3. ShowsAll(def)
  OBVIOUS
<1> HIDE DEF def, h, f, d
<1>4. /\ Writable(h) /\ h.url = def.url /\ h.method = def.method /\ h.headers = def.headers
      /\ h.query = def.query /\ h.extra_args = {flag \in {"clear", "insecure"} : def[flag]}
      /\ h.authwrap = def.auth /\ h.certificate = def.certificate
      /\ h.script_wrap = def.script /\ h.payload = PayloadFromReq(def.payload)
  BY <1>1, FromReqFields DEF h
<1>5. /\ Writable(f)
      /\ \A n \in HeaderNames : f.headers[n] = IF h.headers[n] = "" THEN None ELSE h.headers[n]
      /\ f.extra_args = h.extra_args \ {"no_parent_script"}
      /\ f.payload = IF h.payload.kind \in {"form", "json"} /\ ~Counts(h.payload)
                     THEN NoPayload ELSE h.payload
      /\ f.url = h.url /\ f.method = h.method /\ f.query = h.query
      /\ f.authwrap = h.authwrap /\ f.certificate = h.certificate
      /\ f.script_wrap = h.script_wrap
  BY <1>4, FormattedFields DEF f
<1>6. /\ d.clear = Flag(<<f>>, "clear") /\ d.insecure = Flag(<<f>>, "insecure")
      /\ "no_parent_script" \notin f.extra_args => d.script = f.script_wrap
      /\ f.method # None => d.method = f.method
      /\ d.url = WithScheme(f.url)
      /\ \A n \in HeaderNames :
            d.headers[n] = IF f.headers[n] = None THEN DefaultHeaders[n] ELSE f.headers[n]
      /\ d.headers \in Headers
      /\ d.query = f.query
      /\ d.payload = LoadedPayload(f.payload)
      /\ d.auth = LoadedAuth(<<f>>, d.url)
      /\ d.certificate = f.certificate
  <2>1. Writable(f)
    BY <1>5
  <2> QED
    BY <1>2, <2>1, LoadedOne
<1>a. /\ def.clear \in BOOLEAN /\ def.insecure \in BOOLEAN
      /\ def.method \in STRING /\ def.url \in Url /\ WithScheme(def.url) = def.url
      /\ def.headers \in Headers
      /\ \A n \in HeaderNames : def.headers[n] = None => DefaultHeaders[n] = None
      /\ def.auth \in Optional(Auth)
      /\ def.auth # None /\ def.auth.kind = "aws" =>
            AwsFromHost(def.auth, def.url.host)
                = [service |-> def.auth.service, region |-> def.auth.region]
  BY <1>1 DEF Def
<1>7. d.clear = def.clear /\ d.insecure = def.insecure
  <2> DEFINE c == <<f>>
  <2>1. DOMAIN c = {1} /\ c[1] = f
    OBVIOUS
  <2> HIDE DEF c
  <2>2. \A flag : Flag(c, flag) <=> flag \in f.extra_args
    BY <2>1 DEF Flag
  <2>3. /\ "clear" \in f.extra_args <=> def.clear
        /\ "insecure" \in f.extra_args <=> def.insecure
    BY <1>4, <1>5
  <2>4. (Flag(c, "clear") <=> def.clear) /\ (Flag(c, "insecure") <=> def.insecure)
    BY <2>2, <2>3
  <2>5. Flag(c, "clear") = def.clear /\ Flag(c, "insecure") = def.insecure
    BY <1>a, <2>4, Zenon DEF Flag
  <2> QED
    BY <1>6, <2>5 DEF c
<1>8. d.script = def.script /\ d.certificate = def.certificate
  BY <1>4, <1>5, <1>6
<1>9. d.method = def.method /\ d.url = def.url /\ d.query = def.query
  <2>1. f.method = def.method /\ f.url = def.url /\ f.query = def.query
    BY <1>4, <1>5
  <2>2. def.method # None
    BY <1>a, NoneGiven
  <2>3. d.method = def.method
    BY <1>6, <2>1, <2>2
  <2>4. d.url = def.url
    BY <1>6, <1>a, <2>1
  <2> QED
    BY <1>6, <2>1, <2>3, <2>4
<1>10. d.headers = def.headers
  <2>2. ASSUME NEW n \in HeaderNames
        PROVE  d.headers[n] = def.headers[n]
    <3>1. def.headers[n] # ""
      BY <1>3 DEF ShowsAll
    <3>2. f.headers[n] = def.headers[n]
      BY <1>4, <1>5, <3>1
    <3>3. d.headers[n] = IF def.headers[n] = None THEN DefaultHeaders[n] ELSE def.headers[n]
      BY <1>6, <3>2
    <3>4. def.headers[n] = None => DefaultHeaders[n] = None
      BY <1>a
    <3> QED
      BY <3>3, <3>4
  <2> QED
    BY <1>6, <1>a, <2>2 DEF Headers
<1>11. d.auth = def.auth
  <2>1. f.authwrap = def.auth /\ d.url = def.url /\ d.url \in Url
    BY <1>4, <1>5, <1>9, <1>a
  <2>2. LoadedAuth(<<f>>, d.url) = f.authwrap
    BY <1>5, <1>a, <2>1, AuthAgain
  <2> QED
    BY <1>6, <2>1, <2>2
<1>12. LET p == def.payload
           q == d.payload
       IN /\ q.kind = p.kind /\ q.value = p.value /\ q.part = p.part
          /\ p.kind \in {"text", "file"} => q.header = Guess[p.value]
          /\ p.kind \notin {"text", "file"} => q.header = p.header
  <2>1. f.payload \in Payload
    BY <1>5 DEF Writable, Http
  <2>2. Counts(def.payload) \/ def.payload.kind \in {"none", "text"}
    BY <1>3 DEF ShowsAll
  <2>3. f.payload = LET p == PayloadFromReq(def.payload)
                    IN IF p.kind \in {"form", "json"} /\ ~Counts(p) THEN NoPayload ELSE p
    BY <1>4, <1>5
  <2> HIDE DEF PayloadFromReq
  <2> QED
    BY <1>1, <1>6, <2>1, <2>2, <2>3, PayloadShown
<1>13. Sent(d) = Sent(def)
  <2> DEFINE p == def.payload
             q == d.payload
  <2>1. d.headers[ContentType] = None => q.header = p.header
    <3>1. ~TypeWasGiven(def)
      BY <1>3 DEF ShowsAll
    <3> QED
      BY <1>10, <1>12, <3>1 DEF TypeWasGiven
  <2>2. [d.headers EXCEPT ![ContentType] = IF @ = None THEN q.header ELSE @]
            = [def.headers EXCEPT ![ContentType] = IF @ = None THEN p.header ELSE @]
    BY <1>10, <2>1
  <2>3. Sent(d).body = Sent(def).body
    <3>1. Counts(q) = Counts(p)
      BY <1>12 DEF Counts
    <3>2. /\ Sent(d).body = CASE q.kind \in {"text", "json"} -> <<"bytes", q.value>>
                              [] q.kind = "none" \/ (q.kind = "form" /\ ~Counts(q)) -> <<"bytes", "">>
                              [] q.kind = "file" \/ (q.kind = "form" /\ Counts(q)) -> <<q.kind, q.value>>
                              [] q.kind = "multi" -> <<"multi", q.value, q.part>>
          /\ Sent(def).body = CASE p.kind \in {"text", "json"} -> <<"bytes", p.value>>
                              [] p.kind = "none" \/ (p.kind = "form" /\ ~Counts(p)) -> <<"bytes", "">>
                              [] p.kind = "file" \/ (p.kind = "form" /\ Counts(p)) -> <<p.kind, p.value>>
                              [] p.kind = "multi" -> <<"multi", p.value, p.part>>
      BY DEF Sent
    <3>3. q.kind = p.kind /\ q.value = p.value /\ q.part = p.part
      BY <1>12
    <3> HIDE DEF p, q
    <3> QED
      BY <3>1, <3>2, <3>3
  <2> QED
    BY <1>9, <1>11, <2>2, <2>3 DEF Sent
<1>14. \A part \in {"clear", "insecure", "certificate", "script"} : d[part] = def[part]
  BY <1>7, <1>8
<1> QED
  BY <1>13, <1>14 DEF d, def

-----------------------------------------------------------------------------
\* What is read again of an item: h is what it was imported as, d is loaded.
LEMMA ItemLoaded ==
    ASSUME NEW item, Importable(item), NEW d,
           IsLoaded(d, <<Formatted(HttpFromPostman(item))>>)
    PROVE  /\ d.url = WithScheme(UrlFromPostman(item))
           /\ d.query = QueryFromPostman(item)
           /\ \A n \in HeaderNames :
                 LET own == HeadersFromPostman(item)[n]
                 IN d.headers[n] = IF own \in {"", None} THEN DefaultHeaders[n] ELSE own
           /\ d.auth = LoadedAuth(<<Formatted(HttpFromPostman(item))>>, d.url)
           /\ Writable(Formatted(HttpFromPostman(item)))
           /\ Formatted(HttpFromPostman(item)).authwrap = PostmanAuth(item.auth)
           /\ \E g \in Payload :
                 /\ d.payload = LoadedPayload(g) /\ ~PayloadRaises(g)
                 /\ g = LET p == PostmanPayload(item)
                        IN IF p.kind \in {"form", "json"} /\ ~Counts(p) THEN NoPayload ELSE p
<1> DEFINE h == HttpFromPostman(item)
           f == Formatted(h)
<1>1. /\ Writable(h) /\ h.url = UrlFromPostman(item)
      /\ h.headers = HeadersFromPostman(item) /\ h.query = QueryFromPostman(item)
      /\ h.authwrap = PostmanAuth(item.auth) /\ h.payload = PostmanPayload(item)
  BY FromPostmanFields
<1> HIDE DEF h
<1>2. /\ Writable(f)
      /\ \A n \in HeaderNames : f.headers[n] = IF h.headers[n] = "" THEN None ELSE h.headers[n]
      /\ f.payload = IF h.payload.kind \in {"form", "json"} /\ ~Counts(h.payload)
                     THEN NoPayload ELSE h.payload
      /\ f.url = h.url /\ f.query = h.query /\ f.authwrap = h.authwrap
  BY <1>1, FormattedFields
<1>3. IsLoaded(d, <<f>>)
  BY DEF h
<1> HIDE DEF f
<1>4. /\ d.url = WithScheme(f.url)
      /\ \A n \in HeaderNames :
            d.headers[n] = IF f.headers[n] = None THEN DefaultHeaders[n] ELSE f.headers[n]
      /\ d.query = f.query
      /\ ~PayloadRaises(f.payload) /\ d.payload = LoadedPayload(f.payload)
      /\ d.auth = LoadedAuth(<<f>>, d.url)
  <2>1. Writable(f)
    BY <1>2
  <2> QED
    BY <1>3, <2>1, LoadedOne
<1>5. d.url = WithScheme(UrlFromPostman(item)) /\ d.query = QueryFromPostman(item)
      /\ f.authwrap = PostmanAuth(item.auth)
  BY <1>1, <1>2, <1>4
<1>6. ASSUME NEW n \in HeaderNames
      PROVE  LET own == HeadersFromPostman(item)[n]
             IN d.headers[n] = IF own \in {"", None} THEN DefaultHeaders[n] ELSE own
  BY <1>1, <1>2, <1>4
<1>7. f.payload \in Payload /\ Writable(f)
  BY <1>2 DEF Writable, Http
<1>8. f.payload = LET p == PostmanPayload(item)
                  IN IF p.kind \in {"form", "json"} /\ ~Counts(p) THEN NoPayload ELSE p
  BY <1>1, <1>2
<1> QED
  BY <1>4, <1>5, <1>6, <1>7, <1>8 DEF f, h

\* A text that is read as JSON because a header says that it is.
SaidToBeJson(def) ==
    /\ def.payload.kind = "text"
    /\ def.headers[ContentType] = Json
    /\ def.payload.value \in JsonObjects \cup JsonArrays

\* What an export tells of the body comes back, if it does.
LEMMA BodyKept ==
    ASSUME NEW def, Def(def), ~FormatRaises(HttpFromPostman(PostmanRequest(def))),
           Counts(def.payload), ~SaidToBeJson(def)
    PROVE  LET p == def.payload
               g == PostmanPayload(PostmanRequest(def))
           IN /\ g.value = p.value
              /\ g.kind \in {"form", "json"} => Counts(g)
              /\ p.kind \in {"text", "json"} => g.kind \in {"text", "json"}
              /\ p.kind \notin {"text", "json"} => g.kind = p.kind
              /\ p.kind = "multi" => g.type = p.part /\ p.part # None
              /\ p.kind \in {"text", "form", "file", "json", "multi"}
              /\ p.kind = "form" => p.value \notin Empty
<1> DEFINE r == PostmanRequest(def)
           p == def.payload
           json == p.kind = "json" /\ Counts(p)
           g == PostmanPayload(r)
<1>1. PICK o \in Payload : Readable(o) /\ ~PayloadRaises(o) /\ p = LoadedPayload(o)
  BY DEF Def
<1>2. p.kind = "multi" => p.part # None
  <2>1. p.kind = o.kind /\ (o.kind = "multi" => p.part = Typed(o.type, o.value))
    BY <1>1 DEF LoadedPayload
  <2> QED
    BY <1>1, <2>1, GuessGiven, NoneGiven DEF Typed, Readable
<1>3. p.kind \in {"text", "form", "file", "json", "multi"}
  BY DEF Def, Body, Counts
<1>4. Importable(r)
  BY RequestIsImportable
<1>5. /\ r.body.type = p.part
      /\ r.body.value = IF p.kind = "multi" /\ p.value \in FilesThere THEN None ELSE p.value
      /\ r.headers = [def.headers EXCEPT ![ContentType] = IF json THEN Json
                                                           ELSE def.headers[ContentType]]
  BY DEF PostmanRequest
<1>6. r.body.mode = CASE p.kind = "form" -> "urlencoded"
                      [] json -> "raw"
                      [] p.kind = "file" -> "file"
                      [] p.kind = "text" /\ Counts(p) -> "raw"
                      [] p.kind = "multi" /\ p.value \in FilesThere -> "formdata_file"
                      [] p.kind = "multi" /\ p.value \notin FilesThere -> "formdata_text"
                      [] OTHER -> "none"
  BY DEF PostmanRequest
<1>7. /\ p.kind = "form" => r.body.mode = "urlencoded"
      /\ p.kind = "file" => r.body.mode = "file"
      /\ p.kind \in {"text", "json"} => r.body.mode = "raw"
      /\ p.kind = "multi" => r.body.mode \in {"formdata_file", "formdata_text"}
  BY <1>6
<1>8. r.body.value = p.value
  BY <1>4, <1>5, NoneGiven DEF Importable
<1>9. p.kind \in {"form", "json"} => p.value \notin Empty
  BY DEF Counts
<1> HIDE DEF r
<1>10. CASE p.kind = "multi"
  <2>1. g = [kind |-> "multi", value |-> r.body.value, type |-> r.body.type]
    BY <1>7, <1>10 DEF PostmanPayload
  <2> QED
    BY <1>2, <1>5, <1>8, <1>10, <2>1 DEF r
<1>11. CASE p.kind = "file"
  <2>1. g = [kind |-> "file", value |-> r.body.value, type |-> None]
    BY <1>7, <1>11 DEF PostmanPayload
  <2> QED
    BY <1>8, <1>11, <2>1 DEF r
<1>12. CASE p.kind = "form"
  <2>1. g = [kind |-> "form", value |-> r.body.value, type |-> None]
    BY <1>7, <1>8, <1>9, <1>12 DEF PostmanPayload
  <2>2. Counts(g)
    BY <1>8, <1>9, <1>12, <2>1 DEF Counts
  <2> QED
    BY <1>8, <1>9, <1>12, <2>1, <2>2 DEF r
<1>13. CASE p.kind \in {"text", "json"}
  <2> DEFINE isJson == /\ r.headers[ContentType] = Json
                       /\ r.body.value \in JsonObjects \cup JsonArrays
  <2>1. g = [kind |-> IF isJson THEN "json" ELSE "text",
             value |-> IF isJson THEN Dump(r.body.value) ELSE r.body.value, type |-> None]
    BY <1>7, <1>13 DEF PostmanPayload
  <2>2. isJson => p.kind = "json"
    <3>1. p.kind = "text" => r.headers = def.headers
      <4>1. def.headers \in Headers
        BY DEF Def
      <4> QED
        BY <1>5, <4>1 DEF Headers
    <3> QED
      BY <1>8, <1>13, <3>1 DEF SaidToBeJson
  <2>3. p.kind = "json" => Dump(p.value) = p.value
    BY DEF Def, Readable
  <2>4. g.value = p.value /\ g.kind = IF isJson THEN "json" ELSE "text"
    BY <1>8, <2>1, <2>2, <2>3
  <2>5. g.kind \in {"form", "json"} => Counts(g)
    BY <1>9, <2>2, <2>4 DEF Counts
  <2> QED
    BY <1>13, <2>4, <2>5 DEF r
<1> QED
  BY <1>3, <1>10, <1>11, <1>12, <1>13

\* Text that is said to be JSON comes back as what it holds.
LEMMA JsonRead ==
    ASSUME NEW def, Def(def), SaidToBeJson(def), Dump(def.payload.value) \notin Empty
    PROVE  LET g == PostmanPayload(PostmanRequest(def))
           IN g.kind = "json" /\ g.value = Dump(def.payload.value) /\ Counts(g)
<1> DEFINE r == PostmanRequest(def)
           p == def.payload
<1>1. /\ p.kind = "text" /\ def.headers[ContentType] = Json
      /\ p.value \in JsonObjects \cup JsonArrays
  BY DEF SaidToBeJson
<1>2. Counts(p)
  BY <1>1, ConversionsAssumption DEF ConversionsAssumption, Counts
<1>3. /\ r.body.value = p.value /\ r.body.mode = "raw"
      /\ r.headers = [def.headers EXCEPT ![ContentType] = def.headers[ContentType]]
  BY <1>1, <1>2 DEF PostmanRequest
<1>4. r.headers[ContentType] = Json
  <2>1. def.headers \in Headers
    BY DEF Def
  <2> QED
    BY <1>1, <1>3, <2>1 DEF Headers
<1> HIDE DEF r
<1>5. PostmanPayload(r) = [kind |-> "json", value |-> Dump(p.value), type |-> None]
  BY <1>1, <1>3, <1>4 DEF PostmanPayload
<1> QED
  BY <1>5 DEF Counts, r

\* What has been to Postman keeps what can be kept.
LEMMA PostmanFromInv ==
    ASSUME ConvInv
    PROVE  PostmanKeeps
<1> SUFFICES ASSUME at = "ready", origin # None, origin.via = "postman"
             PROVE  LET def == origin.from
                        parsed == \E k \in Keys : def.query[k] # <<>>
                        bare == def.url.host \notin NoHost /\ def.url.port = None
                                    /\ def.url.path = <<>>
                        json == SaidToBeJson(def)
                        dumped == Dump(def.payload.value)
                    IN /\ Sent(httpdef).query = [k \in Keys |-> UnquoteAll(def.query[k])]
                       /\ Counts(def.payload) /\ ~json => Sent(httpdef).body = Sent(def).body
                       /\ json /\ dumped \notin Empty =>
                              Sent(httpdef).body = <<"bytes", dumped>>
                       /\ (def.auth # None => def.auth.kind \in {"basic", "digest", "ntlm", "aws"})
                              => httpdef.auth = def.auth
                       /\ ~parsed \/ bare => httpdef.url = def.url
  BY DEF PostmanKeeps, SaidToBeJson
<1> DEFINE def == origin.from
           r == PostmanRequest(def)
           f == Formatted(HttpFromPostman(r))
           d == httpdef
           parsed == \E k \in Keys : def.query[k] # <<>>
<1>1. /\ ~readsFiles /\ Def(def) /\ ~FormatRaises(HttpFromPostman(PostmanRequest(def)))
      /\ chain = <<f>>
  BY DEF ConvInv, OriginInv
<1>2. IsLoaded(d, <<f>>)
  BY <1>1, ReadyIsLoaded DEF ConvInv
<1> HIDE DEF def, d
<1>3. Importable(r)
  BY <1>1, RequestIsImportable
<1>4. /\ d.url = WithScheme(UrlFromPostman(r)) /\ d.query = QueryFromPostman(r)
      /\ d.auth = LoadedAuth(<<f>>, d.url) /\ Writable(f) /\ f.authwrap = PostmanAuth(r.auth)
      /\ \E g \in Payload :
            /\ d.payload = LoadedPayload(g) /\ ~PayloadRaises(g)
            /\ g = LET p == PostmanPayload(r)
                   IN IF p.kind \in {"form", "json"} /\ ~Counts(p) THEN NoPayload ELSE p
  BY <1>2, <1>3, ItemLoaded
<1>5. /\ r.url = def.url /\ r.query = def.query /\ r.parsed = parsed
      /\ r.auth = IF def.auth = None THEN NoAuth ELSE def.auth
  BY DEF PostmanRequest
<1>6. /\ def.url \in Url /\ WithScheme(def.url) = def.url /\ def.query \in Query
      /\ def.auth \in Optional(Auth)
      /\ def.auth # None /\ def.auth.kind = "aws" =>
            AwsFromHost(def.auth, def.url.host)
                = [service |-> def.auth.service, region |-> def.auth.region]
      /\ def.auth # None /\ def.auth.kind = "aws" => def.url.host \notin NoHost
      /\ def.payload \in Body
  BY <1>1 DEF Def
<1> HIDE DEF r, f
<1>7. d.query = [k \in Keys |-> UnquoteAll(def.query[k])]
  <2>1. r.auth.kind # "apikey_query"
    BY <1>5, <1>6 DEF Optional, Auth, NoAuth
  <2>2. ASSUME NEW k \in Keys
        PROVE  QueryFromPostman(r)[k] = UnquoteAll(def.query[k])
    <3> DEFINE values == UnquoteAll(def.query[k])
    <3>1. def.query[k] \in Seq(STRING)
      BY <1>6 DEF Query
    <3>2. values \in Seq(STRING)
      BY <3>1, UnquotedType
    <3>3. QueryFromPostman(r)[k] = <<>> \o values
      BY <1>5, <2>1 DEF QueryFromPostman
    <3> HIDE DEF values
    <3>4. <<>> \o values = values
      BY <3>2
    <3> QED
      BY <3>3, <3>4 DEF values
  <2> QED
    BY <1>4, <2>2 DEF QueryFromPostman
<1>8. d.url.host = def.url.host \/ def.url.host \in NoHost
  <2>1. CASE ~parsed
    BY <1>4, <1>5, <1>6, <2>1 DEF UrlFromPostman
  <2>2. CASE parsed /\ def.url.host \notin NoHost
    <3>1. UrlFromPostman(r).host = def.url.host
      BY <1>5, <2>2 DEF UrlFromPostman
    <3>2. WithScheme(UrlFromPostman(r)) = UrlFromPostman(r)
      BY <2>2, <3>1 DEF WithScheme, NoHost
    <3> QED
      BY <1>4, <3>1, <3>2
  <2> QED
    BY <2>1, <2>2
<1>9. ASSUME \/ ~parsed
             \/ def.url.host \notin NoHost /\ def.url.port = None /\ def.url.path = <<>>
      PROVE  d.url = def.url
  <2>1. CASE ~parsed
    BY <1>4, <1>5, <1>6, <2>1 DEF UrlFromPostman
  <2>2. CASE parsed /\ def.url.host \notin NoHost /\ def.url.port = None /\ def.url.path = <<>>
    <3>1. UrlFromPostman(r) = [host |-> def.url.host, port |-> None, path |-> <<>>]
      BY <1>5, <2>2 DEF UrlFromPostman
    <3>2. def.url = [host |-> def.url.host, port |-> None, path |-> <<>>]
      BY <1>6, <2>2 DEF Url
    <3> QED
      BY <1>4, <1>6, <3>1, <3>2
  <2> QED
    BY <1>9, <2>1, <2>2
<1>10. ASSUME def.auth # None => def.auth.kind \in {"basic", "digest", "ntlm", "aws"}
       PROVE  d.auth = def.auth
  <2>1. f.authwrap = def.auth
    BY <1>4, <1>5, <1>6, <1>10 DEF PostmanAuth, NoAuth, Optional
  <2>2. d.url \in Url
    BY <1>3, <1>4, PostmanUrlType, SchemeType
  <2>3. f.authwrap # None /\ f.authwrap.kind = "aws" =>
            AwsFromHost(f.authwrap, d.url.host)
                = [service |-> f.authwrap.service, region |-> f.authwrap.region]
    BY <1>6, <1>8, <2>1
  <2>4. f.authwrap \in Optional(Auth)
    BY <1>6, <2>1
  <2>5. LoadedAuth(<<f>>, d.url) = f.authwrap
    BY <1>4, <2>2, <2>3, <2>4, AuthAgain
  <2> QED
    BY <1>4, <2>1, <2>5
<1>11. ASSUME Counts(def.payload), ~SaidToBeJson(def)
       PROVE  Sent(d).body = Sent(def).body
  <2> DEFINE p == def.payload
             q == d.payload
  <2>1. PICK g \in Payload :
            /\ q = LoadedPayload(g) /\ ~PayloadRaises(g)
            /\ g = LET b == PostmanPayload(r)
                   IN IF b.kind \in {"form", "json"} /\ ~Counts(b) THEN NoPayload ELSE b
    BY <1>4
  <2> DEFINE b == PostmanPayload(r)
  <2>2. /\ b.value = p.value
        /\ b.kind \in {"form", "json"} => Counts(b)
        /\ p.kind \in {"text", "json"} => b.kind \in {"text", "json"}
        /\ p.kind \notin {"text", "json"} => b.kind = p.kind
        /\ p.kind = "multi" => b.type = p.part /\ p.part # None
        /\ p.kind \in {"text", "form", "file", "json", "multi"}
        /\ p.kind = "form" => p.value \notin Empty
    BY <1>1, <1>11, BodyKept DEF r
  <2>3. g = b
    BY <2>1, <2>2
  <2>4. /\ q.kind = g.kind /\ q.value = g.value
        /\ q.part = IF g.kind = "multi" THEN Typed(g.type, g.value) ELSE None
    BY <2>1 DEF LoadedPayload
  <2> HIDE DEF b
  <2>5. p.kind = "multi" => q.part = p.part
    BY <2>2, <2>3, <2>4 DEF Typed
  <2>6. /\ Sent(d).body = CASE q.kind \in {"text", "json"} -> <<"bytes", q.value>>
                            [] q.kind = "none" \/ (q.kind = "form" /\ ~Counts(q)) -> <<"bytes", "">>
                            [] q.kind = "file" \/ (q.kind = "form" /\ Counts(q)) -> <<q.kind, q.value>>
                            [] q.kind = "multi" -> <<"multi", q.value, q.part>>
        /\ Sent(def).body = CASE p.kind \in {"text", "json"} -> <<"bytes", p.value>>
                            [] p.kind = "none" \/ (p.kind = "form" /\ ~Counts(p)) -> <<"bytes", "">>
                            [] p.kind = "file" \/ (p.kind = "form" /\ Counts(p)) -> <<p.kind, p.value>>
                            [] p.kind = "multi" -> <<"multi", p.value, p.part>>
    BY DEF Sent
  <2>7. q.value = p.value /\ (p.kind = "form" => Counts(p) /\ Counts(q))
    BY <2>2, <2>3, <2>4 DEF Counts
  <2>8. /\ p.kind \in {"text", "json"} => q.kind \in {"text", "json"}
        /\ p.kind \notin {"text", "json"} => q.kind = p.kind
        /\ p.kind \in {"text", "form", "file", "json", "multi"}
    BY <2>2, <2>3, <2>4
  <2> HIDE DEF p, q
  <2> QED
    BY <2>5, <2>6, <2>7, <2>8
<1>12. ASSUME SaidToBeJson(def), Dump(def.payload.value) \notin Empty
       PROVE  Sent(d).body = <<"bytes", Dump(def.payload.value)>>
  <2> DEFINE b == PostmanPayload(r)
             q == d.payload
  <2>1. b.kind = "json" /\ b.value = Dump(def.payload.value) /\ Counts(b)
    BY <1>1, <1>12, JsonRead DEF r
  <2> HIDE DEF b
  <2>2. q = LoadedPayload(b)
    BY <1>4, <2>1 DEF b
  <2>3. q.kind = "json" /\ q.value = Dump(def.payload.value)
    BY <2>1, <2>2 DEF LoadedPayload
  <2> QED
    BY <2>3 DEF Sent
<1>13. Sent(d).query = [k \in Keys |-> UnquoteAll(def.query[k])]
  BY <1>7 DEF Sent
<1> QED
  BY <1>9, <1>10, <1>11, <1>12, <1>13 DEF def, d, parsed

-----------------------------------------------------------------------------
\* What is sent of an archive's text that is said to be JSON, and of the rest.
ReadAsJson(text) ==
    CASE text \in JsonObjects -> IF Dump(text) \in Empty THEN "" ELSE Dump(text)
      [] text \in DOMAIN JsonStrings \ JsonObjects -> JsonStrings[text]
      [] OTHER -> ""

HarIsSent(har) ==
    /\ har.text # "" /\ har.mimeType = Json =>
          Sent(httpdef).body = <<"bytes", ReadAsJson(har.text)>>
    /\ har.text # "" /\ har.mimeType \notin {Json, Form} =>
          Sent(httpdef).body = <<"bytes", har.text>>
    /\ har.text = "" /\ har.param # None =>
          Sent(httpdef).body =
              <<"multi", har.param.value, Typed(har.param.type, har.param.value)>>

\* What an archive or a collection holds is sent.
LEMMA ImportsFromInv ==
    ASSUME ConvInv
    PROVE  ImportsSend
<1> SUFFICES ASSUME at = "ready", origin # None
             PROVE  /\ origin.via = "har" => HarIsSent(origin.from)
                    /\ origin.via = "item"
                          /\ origin.from.auth.kind \in {"bearer", "apikey_header"} =>
                              httpdef.headers["authorization"] \in
                                  {origin.from.auth.kind, origin.from.headers["authorization"]}
                                      \ {None, ""}
  BY DEF ImportsSend, HarIsSent, ReadAsJson
<1> DEFINE from == origin.from
           d == httpdef
<1> HIDE DEF d
<1>1. IsLoaded(d, chain)
  BY ReadyIsLoaded DEF ConvInv, d
<1>2. ASSUME origin.via = "har"
      PROVE  HarIsSent(from)
  <2> DEFINE h == HttpFromHar(from)
             f == Formatted(h)
             p == HarPayload(from)
             q == d.payload
  <2>1. from \in HarRequests /\ chain = <<f>>
    BY <1>2 DEF ConvInv, OriginInv
  <2> HIDE DEF from
  <2>2. Writable(h) /\ h.payload = p
    BY <2>1, FromHarFields
  <2> HIDE DEF h
  <2>3. /\ Writable(f)
        /\ f.payload = IF p.kind \in {"form", "json"} /\ ~Counts(p) THEN NoPayload ELSE p
    BY <2>2, FormattedFields
  <2> HIDE DEF f
  <2>4. q = LoadedPayload(f.payload)
    BY <1>1, <2>1, <2>3, LoadedOne
  <2>5. /\ q.kind = f.payload.kind /\ q.value = f.payload.value
        /\ f.payload.kind = "multi" => q.part = Typed(f.payload.type, f.payload.value)
    BY <2>4 DEF LoadedPayload
  <2> HIDE DEF q, p
  <2>6. /\ q.kind \in {"text", "json"} => Sent(d).body = <<"bytes", q.value>>
        /\ q.kind = "none" => Sent(d).body = <<"bytes", "">>
        /\ q.kind = "multi" => Sent(d).body = <<"multi", q.value, q.part>>
    BY DEF Sent, q
  <2>7. /\ p.kind = "text" => Sent(d).body = <<"bytes", p.value>>
        /\ p.kind = "json" /\ p.value \notin Empty => Sent(d).body = <<"bytes", p.value>>
        /\ p.kind = "none" => Sent(d).body = <<"bytes", "">>
        /\ p.kind = "multi" => Sent(d).body = <<"multi", p.value, Typed(p.type, p.value)>>
    BY <2>3, <2>5, <2>6 DEF Counts
  <2>8. ASSUME from.text # "", from.mimeType = Json
        PROVE  Sent(d).body = <<"bytes", ReadAsJson(from.text)>>
    <3>0. p = JsonPayload(from.text)
      BY <2>8 DEF HarPayload, Json, Form, p
    <3>1. CASE from.text \in JsonObjects /\ Dump(from.text) \notin Empty
      <4>1. p = [kind |-> "json", value |-> Dump(from.text), type |-> None]
        BY <3>0, <3>1, JsonPayloads
      <4>2. p.kind = "json" /\ p.value = Dump(from.text)
        BY <4>1
      <4> QED
        BY <2>7, <3>1, <4>2 DEF ReadAsJson
    <3>2. CASE from.text \in DOMAIN JsonStrings \ JsonObjects
      <4>1. p = [kind |-> "text", value |-> JsonStrings[from.text], type |-> None]
        BY <3>0, <3>2, JsonPayloads
      <4>2. p.kind = "text" /\ p.value = JsonStrings[from.text]
        BY <4>1
      <4> QED
        BY <2>7, <3>2, <4>2 DEF ReadAsJson
    <3>3. CASE /\ ~(from.text \in JsonObjects /\ Dump(from.text) \notin Empty)
               /\ from.text \notin DOMAIN JsonStrings \ JsonObjects
      <4>1. p = NoPayload
        BY <3>0, <3>3, JsonPayloads
      <4>2. p.kind = "none"
        BY <4>1 DEF NoPayload
      <4>3. ReadAsJson(from.text) = ""
        BY <3>3 DEF ReadAsJson
      <4> QED
        BY <2>7, <4>2, <4>3
    <3> QED
      BY <3>1, <3>2, <3>3
  <2>9. ASSUME from.text # "", from.mimeType \notin {Json, Form}
        PROVE  Sent(d).body = <<"bytes", from.text>>
    <3>1. p = [kind |-> "text", value |-> from.text, type |-> None]
      BY <2>9 DEF HarPayload, p
    <3>2. p.kind = "text" /\ p.value = from.text
      BY <3>1
    <3> QED
      BY <2>7, <3>2
  <2>10. ASSUME from.text = "", from.param # None
         PROVE  Sent(d).body =
                    <<"multi", from.param.value, Typed(from.param.type, from.param.value)>>
    <3>1. p = [kind |-> "multi", value |-> from.param.value, type |-> from.param.type]
      BY <2>10 DEF HarPayload, p
    <3>2. p.kind = "multi" /\ p.value = from.param.value /\ p.type = from.param.type
      BY <3>1
    <3> QED
      BY <2>7, <3>2
  <2> QED
    BY <2>8, <2>9, <2>10 DEF HarIsSent, d
<1>3. ASSUME origin.via = "item", from.auth.kind \in {"bearer", "apikey_header"}
      PROVE  d.headers["authorization"] \in
                 {from.auth.kind, from.headers["authorization"]} \ {None, ""}
  <2>1. from \in PostmanItems /\ chain = <<Formatted(HttpFromPostman(from))>>
    BY <1>3 DEF ConvInv, OriginInv
  <2> HIDE DEF from
  <2>2. Importable(from)
    BY <2>1, ItemsAreImportable
  <2> DEFINE own == HeadersFromPostman(from)["authorization"]
  <2>3. "authorization" \in HeaderNames
    BY ConversionsAssumption DEF ConversionsAssumption
  <2>4. d.headers["authorization"] =
            IF own \in {"", None} THEN DefaultHeaders["authorization"] ELSE own
    BY <1>1, <2>1, <2>2, <2>3, ItemLoaded
  <2>5. own = IF from.headers["authorization"] \in {None, ""} THEN from.auth.kind
              ELSE from.headers["authorization"]
    BY <1>3, <2>3 DEF HeadersFromPostman
  <2>6. from.auth.kind \notin {None, ""}
    <3>1. from.auth.kind \in STRING
      BY <1>3, <2>2 DEF Importable
    <3> QED
      BY <1>3, <3>1, NoneGiven
  <2> QED
    BY <2>4, <2>5, <2>6
<1> QED
  BY <1>2, <1>3 DEF d

-----------------------------------------------------------------------------
\* What is added at the front leaves a suffix.
LEMMA SuffixOf ==
    ASSUME NEW V, NEW s \in Seq(V), NEW t \in Seq(V)
    PROVE  IsSuffix(s, t \o s)
<1> DEFINE n == Len(s)
           m == Len(t \o s)
           a == Reverse(s)
           b == Reverse(t \o s)
<1>1. /\ n \in Nat /\ m = Len(t) + n /\ Len(t) \in Nat
      /\ \A i \in 1..n : (t \o s)[Len(t) + i] = s[i]
  OBVIOUS
<1>2. a = [i \in 1..n |-> s[(n - i) + 1]]
  BY DEF Reverse
<1>3. b = [i \in 1..m |-> (t \o s)[(m - i) + 1]]
  BY DEF Reverse
<1>4. /\ \A i \in 1..n : s[(n - i) + 1] \in V
      /\ \A i \in 1..m : (t \o s)[(m - i) + 1] \in V
  OBVIOUS
<1>5. a \in Seq(V) /\ Len(a) = n
  BY <1>1, <1>2, <1>4
<1>6. b \in Seq(V) /\ Len(b) = m
  <2>1. m \in Nat
    BY <1>1
  <2> QED
    BY <1>3, <1>4, <2>1
<1>7. ASSUME NEW i \in 1..n
      PROVE  a[i] = b[i]
  <2>1. a[i] = s[(n - i) + 1]
    BY <1>2
  <2>2. i \in 1..m
    BY <1>1
  <2>3. b[i] = (t \o s)[(m - i) + 1]
    BY <1>3, <2>2
  <2>4. (m - i) + 1 = Len(t) + ((n - i) + 1) /\ (n - i) + 1 \in 1..n
    BY <1>1
  <2>5. (t \o s)[Len(t) + ((n - i) + 1)] = s[(n - i) + 1]
    BY <1>1, <2>4
  <2> HIDE DEF a, b, n, m
  <2> QED
    BY <2>1, <2>3, <2>4, <2>5
<1> HIDE DEF a, b
<1>8. Len(a) <= Len(b) /\ SubSeq(a, 1, Len(a)) = SubSeq(b, 1, Len(a))
  <2>1. n <= m
    BY <1>1
  <2> HIDE DEF n, m
  <2> QED
    BY <1>1, <1>5, <1>6, <1>7, <2>1
<1> QED
  BY <1>8 DEF IsSuffix, IsPrefix, a, b

\* A url can be joined to what its base was joined to, or to its base first.
LEMMA JoinAssociates ==
    ASSUME NEW b \in Url, NEW v \in Url, NEW x \in Url
    PROVE  JoinUrl(b, JoinUrl(v, x)) = JoinUrl(JoinUrl(b, v), x)
<1>1. ASSUME NEW y \in Url, NEW z \in Url
      PROVE  JoinUrl(y, z) = IF z.host = <<>> /\ z.path = <<>> THEN y
                             ELSE IF z.host # <<>> THEN z
                             ELSE [y EXCEPT !.path = Lead(y) \o Relative(z.path)]
  BY DEF JoinUrl, Lead
<1>2. CASE x.host # <<>>
  BY <1>2 DEF JoinUrl
<1>3. CASE x.host = <<>> /\ x.path = <<>>
  BY <1>3 DEF JoinUrl
<1>4. CASE x.host = <<>> /\ x.path # <<>>
  <2> DEFINE w == JoinUrl(v, x)
             r == Relative(x.path)
  <2>1. /\ b.path \in Seq(STRING) /\ v.path \in Seq(STRING) /\ r \in Seq(STRING)
        /\ Lead(b) \in Seq(STRING) /\ Lead(v) \in Seq(STRING)
    BY LeadType, RelativeType DEF Url
  <2> HIDE DEF r
  <2>2. \A y \in Url : JoinUrl(y, x) = [y EXCEPT !.path = Lead(y) \o r]
    BY <1>1, <1>4 DEF r
  <2>3. w = [v EXCEPT !.path = Lead(v) \o r] /\ w \in Url
    BY <2>2, JoinType
  <2>4. w.host = v.host /\ w.path = Lead(v) \o r
    BY <2>3 DEF Url
  <2> HIDE DEF w
  <2>5. CASE v.host # <<>>
    <3>1. JoinUrl(b, w) = w /\ JoinUrl(b, v) = v
      BY <1>1, <2>3, <2>4, <2>5
    <3> QED
      BY <3>1 DEF w
  <2>6. CASE v.host = <<>> /\ v.path = <<>>
    <3>1. w.path = <<"">> \o r /\ "" \in STRING
      BY <2>4, <2>6, LiteralsGiven DEF Lead
    <3>2. w.path # <<>> /\ Relative(w.path) = r
      <4>1. \A e \in STRING, s \in Seq(STRING) :
                <<e>> \o s # <<>> /\ Head(<<e>> \o s) = e /\ Tail(<<e>> \o s) = s
        OBVIOUS
      <4>2. w.path # <<>> /\ Head(w.path) = "" /\ Tail(w.path) = r
        BY <2>1, <3>1, <4>1
      <4> QED
        BY <4>2 DEF Relative
    <3>3. JoinUrl(b, w) = [b EXCEPT !.path = Lead(b) \o r]
      BY <1>1, <2>3, <2>4, <2>6, <3>2
    <3>4. JoinUrl(b, v) = b
      BY <1>1, <2>6
    <3> QED
      BY <2>2, <3>3, <3>4 DEF w
  <2>7. CASE v.host = <<>> /\ v.path # <<>>
    <3> DEFINE j == JoinUrl(b, v)
               q == Relative(v.path)
    <3>1. w.path = v.path \o r
      BY <2>4, <2>7 DEF Lead
    <3>2. w.path # <<>>
      BY <2>1, <2>7, <3>1
    <3>3. Relative(w.path) = q \o r /\ q \in Seq(STRING)
      BY <2>1, <2>7, <3>1, RelativeType
    <3> HIDE DEF q
    <3>4. JoinUrl(b, w) = [b EXCEPT !.path = Lead(b) \o (q \o r)]
      BY <1>1, <2>3, <2>4, <2>7, <3>2, <3>3
    <3>5. j = [b EXCEPT !.path = Lead(b) \o q] /\ j \in Url
      BY <1>1, <2>7, JoinType DEF q
    <3>6. j.host = b.host /\ j.path = Lead(b) \o q
      BY <3>5 DEF Url
    <3>7. Lead(j) = Lead(b) \o q
      <4>1. b.host = <<>> => Lead(b) # <<>>
        BY DEF Lead
      <4>2. b.host = <<>> => Lead(b) \o q # <<>>
        BY <2>1, <3>3, <4>1
      <4> QED
        BY <3>6, <4>2 DEF Lead
    <3> HIDE DEF j
    <3>8. JoinUrl(j, x) = [j EXCEPT !.path = (Lead(b) \o q) \o r]
      BY <2>2, <3>5, <3>7
    <3>9. (Lead(b) \o q) \o r = Lead(b) \o (q \o r)
      <4> DEFINE l == Lead(b)
      <4>1. l \in Seq(STRING) /\ q \in Seq(STRING) /\ r \in Seq(STRING)
        BY <2>1, <3>3
      <4> HIDE DEF l
      <4>2. (l \o q) \o r = l \o (q \o r)
        BY <4>1
      <4> QED
        BY <4>2 DEF l
    <3>10. JoinUrl(j, x) = [b EXCEPT !.path = Lead(b) \o (q \o r)]
      BY <3>5, <3>8, <3>9 DEF Url
    <3> QED
      BY <3>4, <3>10 DEF w, j
  <2> QED
    BY <2>5, <2>6, <2>7
<1> QED
  BY <1>2, <1>3, <1>4

\* A definition and what it extends, with and without the first.
LEMMA BaseIsChain ==
    ASSUME NEW c, Chain(c), Len(c) > 1
    PROVE  /\ Chain(Tail(c)) /\ Len(Tail(c)) = Len(c) - 1
           /\ DOMAIN Tail(c) = 1..Len(c) - 1
           /\ \A i \in 1..Len(c) - 1 : Tail(c)[i] = c[i + 1]
           /\ Len(c) \in Nat /\ DOMAIN c = 1..Len(c)
<1>1. /\ Len(c) \in Nat \ {0} /\ DOMAIN c = 1..Len(c)
      /\ Tail(c) \in Seq(Http) /\ Len(Tail(c)) = Len(c) - 1
      /\ \A i \in 1..Len(c) - 1 : Tail(c)[i] = c[i + 1]
  BY ChainHead
<1>2. Tail(c) # <<>> /\ DOMAIN Tail(c) = 1..Len(c) - 1
  <2> DEFINE t == Tail(c)
             m == Len(c) - 1
  <2>1. t \in Seq(Http) /\ Len(t) = m /\ m \in Nat \ {0}
    BY <1>1
  <2> HIDE DEF t, m
  <2>2. t # <<>> /\ DOMAIN t = 1..m
    BY <2>1
  <2> QED
    BY <2>2 DEF t, m
<1>3. \A i \in DOMAIN Tail(c) : Readable(Tail(c)[i].payload)
  <2> TAKE i \in DOMAIN Tail(c)
  <2>1. i + 1 \in DOMAIN c /\ Tail(c)[i] = c[i + 1]
    BY <1>1, <1>2
  <2> QED
    BY <2>1 DEF Chain
<1> QED
  BY <1>1, <1>2, <1>3 DEF Chain

\* The nearest of all is the definition itself, or the nearest it extends.
LEMMA CurrentOrBaseStep ==
    ASSUME NEW c, Chain(c), Len(c) > 1, NEW attr
    PROVE  CurrentOrBase(c, attr) = IF c[1][attr] # None THEN c[1][attr]
                                    ELSE CurrentOrBase(Tail(c), attr)
<1> DEFINE t == Tail(c)
           L == Len(c)
<1>1. /\ Chain(t) /\ DOMAIN t = 1..L - 1 /\ L \in Nat /\ L > 1 /\ DOMAIN c = 1..L
      /\ \A i \in 1..L - 1 : t[i] = c[i + 1]
  BY BaseIsChain
<1> HIDE DEF t, L
<1>2. CASE c[1][attr] # None
  <2>1. PICK i \in DOMAIN c : /\ CurrentOrBase(c, attr) = c[i][attr] /\ c[i][attr] # None
                              /\ \A j \in DOMAIN c : c[j][attr] # None => i <= j
    BY <1>1, <1>2, CurrentOrBaseOf
  <2>2. i = 1
    BY <1>1, <1>2, <2>1
  <2> QED
    BY <1>2, <2>1, <2>2
<1>3. CASE c[1][attr] = None
  <2>1. CASE CurrentOrBase(c, attr) = None /\ \A i \in DOMAIN c : c[i][attr] = None
    <3>1. \A i \in DOMAIN t : t[i][attr] = None
      <4> TAKE i \in DOMAIN t
      <4>1. i + 1 \in DOMAIN c /\ t[i] = c[i + 1]
        BY <1>1
      <4> QED
        BY <2>1, <4>1
    <3>2. CurrentOrBase(t, attr) = None
      BY <1>1, <3>1, CurrentOrBaseOf
    <3> QED
      BY <1>3, <2>1, <3>2 DEF t
  <2>2. CASE \E i \in DOMAIN c : /\ CurrentOrBase(c, attr) = c[i][attr] /\ c[i][attr] # None
                                 /\ \A j \in DOMAIN c : c[j][attr] # None => i <= j
    <3>1. PICK i \in DOMAIN c : /\ CurrentOrBase(c, attr) = c[i][attr] /\ c[i][attr] # None
                                /\ \A j \in DOMAIN c : c[j][attr] # None => i <= j
      BY <2>2
    <3>2. i # 1 /\ i - 1 \in DOMAIN t /\ t[i - 1] = c[i]
      <4>1. i # 1
        BY <1>3, <3>1
      <4>2. i - 1 \in 1..L - 1 /\ (i - 1) + 1 = i
        BY <1>1, <4>1
      <4> QED
        BY <1>1, <4>1, <4>2
    <3>3. PICK k \in DOMAIN t : /\ CurrentOrBase(t, attr) = t[k][attr] /\ t[k][attr] # None
                                /\ \A j \in DOMAIN t : t[j][attr] # None => k <= j
      <4>1. t[i - 1][attr] # None
        BY <3>1, <3>2
      <4>2. \/ CurrentOrBase(t, attr) = None /\ \A j \in DOMAIN t : t[j][attr] = None
            \/ \E k \in DOMAIN t : /\ CurrentOrBase(t, attr) = t[k][attr] /\ t[k][attr] # None
                                   /\ \A j \in DOMAIN t : t[j][attr] # None => k <= j
        BY <1>1, CurrentOrBaseOf
      <4> QED
        BY <3>2, <4>1, <4>2
    <3>4. k + 1 \in DOMAIN c /\ t[k] = c[k + 1]
      BY <1>1
    <3>5. k <= i - 1 /\ i <= k + 1
      BY <3>1, <3>2, <3>3, <3>4
    <3>6. k = i - 1
      BY <1>1, <3>5
    <3> QED
      BY <1>3, <3>1, <3>2, <3>3, <3>6 DEF t
  <2> QED
    BY <2>1, <2>2, CurrentOrBaseOf
<1> QED
  BY <1>2, <1>3

\* The url of a definition is joined to the one its base has.
LEMMA UrlStep ==
    ASSUME NEW c, Chain(c), Len(c) > 1
    PROVE  LoadedUrl(c) = JoinUrl(LoadedUrl(Tail(c)), c[1].url)
<1> DEFINE t == Tail(c)
           L == Len(c)
           x == c[1].url
<1>1. /\ Chain(t) /\ Len(t) = L - 1 /\ L \in Nat /\ L > 1 /\ DOMAIN c = 1..L
      /\ \A i \in 1..L - 1 : t[i] = c[i + 1]
      /\ \A i \in 1..L : c[i].url \in Url
  BY BaseIsChain, ChainHead DEF Http
<1>2. PICK u : UrlsOf(c, u)
  BY UrlsExist
<1>3. PICK v : UrlsOf(t, v)
  BY <1>1, UrlsExist
<1>4. /\ u[1] = x /\ \A i \in 2..L : u[i] = JoinUrl(c[i].url, u[i - 1])
      /\ LoadedUrl(c) = u[L]
  BY <1>2 DEF UrlsOf
<1>5. /\ v \in [1..L - 1 -> Url] /\ v[1] = t[1].url
      /\ \A i \in 2..L - 1 : v[i] = JoinUrl(t[i].url, v[i - 1])
      /\ LoadedUrl(t) = v[L - 1]
  BY <1>1, <1>3 DEF UrlsOf
<1> HIDE DEF t, L, x
<1>6. x \in Url
  BY <1>1 DEF x
<1> DEFINE bad == {i \in 1..L - 1 : u[i + 1] # JoinUrl(v[i], x)}
<1>7. ASSUME bad # {}
      PROVE  FALSE
  <2>1. bad \in SUBSET Nat
    BY <1>1
  <2>2. PICK k \in bad : \A j \in bad : k <= j
    <3> HIDE DEF bad
    <3> QED
      BY <1>7, <2>1, LeastElement
  <2>3. k \in 1..L - 1 /\ k + 1 \in 2..L /\ (k + 1) - 1 = k /\ t[k] = c[k + 1]
    BY <1>1, <2>2
  <2>4. u[k + 1] = JoinUrl(c[k + 1].url, u[k])
    BY <1>4, <2>3
  <2>5. CASE k = 1
    BY <1>4, <1>5, <2>2, <2>3, <2>4, <2>5
  <2>6. CASE k # 1
    <3>1. k - 1 \in 1..L - 1 /\ k - 1 \notin bad /\ (k - 1) + 1 = k /\ k \in 2..L - 1
      BY <1>1, <2>2, <2>3, <2>6
    <3>2. u[k] = JoinUrl(v[k - 1], x)
      BY <3>1
    <3>3. v[k] = JoinUrl(c[k + 1].url, v[k - 1]) /\ v[k - 1] \in Url /\ c[k + 1].url \in Url
      BY <1>1, <1>5, <2>3, <3>1
    <3>4. u[k + 1] = JoinUrl(v[k], x)
      BY <1>6, <2>4, <3>2, <3>3, JoinAssociates
    <3> QED
      BY <2>2, <3>4
  <2> QED
    BY <2>5, <2>6
<1>8. u[L] = JoinUrl(v[L - 1], x)
  <2>1. L - 1 \in 1..L - 1 /\ (L - 1) + 1 = L
    BY <1>1
  <2>2. u[(L - 1) + 1] = JoinUrl(v[L - 1], x)
    BY <1>7, <2>1
  <2> QED
    BY <2>1, <2>2
<1> QED
  BY <1>4, <1>5, <1>8 DEF t, x

\* The parameters of a definition come last.
LEMMA QueryEnds ==
    ASSUME NEW c, Chain(c), Len(c) > 1, NEW k \in Keys
    PROVE  IsSuffix(c[1].query[k], LoadedQuery(c)[k])
<1> DEFINE s == ValuesOf(c, k)
           L == Len(c)
<1>1. /\ s \in Seq(Seq(STRING)) /\ s # <<>> /\ Len(s) = L /\ s[L] = c[1].query[k]
      /\ LoadedQuery(c)[k] = FlattenSeq(s) /\ L \in Nat /\ L > 1
  BY ValuesType, ChainHead
<1>2. PICK f : Together(s, f)
  BY <1>1, FlattenExists
<1> HIDE DEF s, L
<1>3. /\ f[L] = f[L - 1] \o s[L] /\ FlattenSeq(s) = f[L] /\ f[L - 1] \in Seq(STRING)
      /\ s[L] \in Seq(STRING)
  <2>1. L \in 2..L /\ L - 1 \in 1..L /\ L \in 1..L
    BY <1>1
  <2>2. /\ f \in [1..L -> Seq(STRING)] /\ FlattenSeq(s) = f[L]
        /\ \A i \in 2..L : f[i] = f[i - 1] \o s[i]
    BY <1>1, <1>2 DEF Together
  <2>3. f[L] = f[L - 1] \o s[L]
    BY <2>1, <2>2
  <2>4. s[L] \in Seq(STRING)
    BY <1>1, <2>1
  <2> QED
    BY <2>1, <2>2, <2>3, <2>4
<1>4. IsSuffix(s[L], f[L - 1] \o s[L])
  BY <1>3, SuffixOf
<1> QED
  BY <1>1, <1>3, <1>4

\* A header that nothing else names is the one the base has.
LEMMA HeaderOnce ==
    ASSUME NEW c, Chain(c), Len(c) > 1, NEW h \in HeaderNames, NEW k \in 2..Len(c),
           \A i \in DOMAIN c : c[i].headers[h] # None <=> i = k
    PROVE  LoadedHeaders(c)[h] = c[k].headers[h]
<1> DEFINE L == Len(c)
           o == LoadOrder(c)
<1>1. /\ L \in Nat \ {0} /\ DOMAIN c = 1..L /\ o[L] = c[1]
      /\ \A i \in 1..L - 1 : o[i] = c[i + 1]
  BY ChainHead, OrderOf
<1>2. k \in DOMAIN c /\ c[k].headers[h] # None
  BY <1>1
<1>3. PICK i \in 1..L : o[i].headers[h] # None /\ LoadedHeaders(c)[h] = o[i].headers[h]
  BY <1>2, HeaderOf
<1> HIDE DEF L, o
<1>4. CASE i = L
  BY <1>1, <1>3, <1>4 DEF L
<1>5. CASE i # L
  <2>1. i \in 1..L - 1 /\ i + 1 \in DOMAIN c /\ o[i] = c[i + 1]
    BY <1>1, <1>3, <1>5
  <2>2. i + 1 = k
    BY <1>3, <2>1
  <2> QED
    BY <1>3, <2>1, <2>2
<1> QED
  BY <1>4, <1>5

\* What is set on a definition or on one it extends.
LEMMA FlagStep ==
    ASSUME NEW c, Chain(c), Len(c) > 1, NEW flag
    PROVE  Flag(c, flag) <=> Flag(Tail(c), flag) \/ flag \in c[1].extra_args
<1> DEFINE t == Tail(c)
           L == Len(c)
<1>1. /\ DOMAIN t = 1..L - 1 /\ L \in Nat /\ L > 1 /\ DOMAIN c = 1..L
      /\ \A i \in 1..L - 1 : t[i] = c[i + 1]
  BY BaseIsChain
<1> HIDE DEF t, L
<1>2. ASSUME NEW i \in DOMAIN c, flag \in c[i].extra_args, flag \notin c[1].extra_args
      PROVE  \E j \in DOMAIN t : flag \in t[j].extra_args
  <2>1. i # 1
    BY <1>2
  <2>2. i - 1 \in 1..L - 1 /\ (i - 1) + 1 = i
    BY <1>1, <2>1
  <2>3. i - 1 \in DOMAIN t /\ t[i - 1] = c[i]
    BY <1>1, <2>2
  <2> QED
    BY <1>2, <2>3
<1>3. ASSUME NEW j \in DOMAIN t, flag \in t[j].extra_args
      PROVE  \E i \in DOMAIN c : flag \in c[i].extra_args
  <2>1. j + 1 \in DOMAIN c /\ t[j] = c[j + 1]
    BY <1>1
  <2> QED
    BY <1>3, <2>1
<1>4. 1 \in DOMAIN c
  BY <1>1
<1> QED
  BY <1>2, <1>3, <1>4 DEF Flag, t

\* The invariant implies that bases are inherited.
LEMMA BaseFromInv ==
    ASSUME ConvInv
    PROVE  GetsWhatItsBaseHas
<1> DEFINE c == chain
           own == Head(c)
           base == Tail(c)
<1> SUFFICES ASSUME at = "ready", Len(c) > 1
             PROVE  /\ httpdef.url = WithScheme(JoinUrl(LoadedUrl(base), own.url))
                    /\ httpdef.insecure
                          <=> Flag(base, "insecure") \/ "insecure" \in own.extra_args
                    /\ httpdef.timeout
                          = LoadedTimeout(IF own.timeout # None THEN <<own>> ELSE base)
                    /\ httpdef.proxy
                          = CurrentOrBase(IF own.proxy # None THEN <<own>> ELSE base, "proxy")
                    /\ "no_parent_script" \in own.extra_args => httpdef.script = own.script_wrap
                    /\ \A k \in Keys : IsSuffix(own.query[k], httpdef.query[k])
                    /\ \A h \in HeaderNames :
                          /\ own.headers[h] # None => httpdef.headers[h] = own.headers[h]
                          /\ \A i \in DOMAIN base : Known(h) = {i + 1} =>
                                httpdef.headers[h] = LoadedHeaders(base)[h]
                          /\ Known(h) = {} => httpdef.headers[h] = DefaultHeaders[h]
  BY DEF GetsWhatItsBaseHas
<1>1. /\ IsLoaded(httpdef, c) /\ Chain(c)
  BY ReadyIsLoaded DEF ConvInv, ChainInv
<1>2. /\ Chain(base) /\ DOMAIN base = 1..Len(c) - 1 /\ Len(c) \in Nat /\ DOMAIN c = 1..Len(c)
      /\ \A i \in 1..Len(c) - 1 : base[i] = c[i + 1]
      /\ own = c[1] /\ own \in Http /\ Readable(own.payload)
  BY <1>1, BaseIsChain, ChainHead
<1>3. /\ httpdef.insecure = Flag(c, "insecure") /\ httpdef.script = LoadedScript(c)
      /\ httpdef.url = WithScheme(LoadedUrl(c)) /\ httpdef.headers = LoadedHeaders(c)
      /\ httpdef.query = LoadedQuery(c) /\ httpdef.timeout = LoadedTimeout(c)
      /\ httpdef.proxy = CurrentOrBase(c, "proxy")
  BY <1>1 DEF IsLoaded
<1> HIDE DEF c, own, base
<1>4. httpdef.url = WithScheme(JoinUrl(LoadedUrl(base), own.url))
  BY <1>1, <1>2, <1>3, UrlStep DEF base
<1>5. httpdef.insecure <=> Flag(base, "insecure") \/ "insecure" \in own.extra_args
  BY <1>1, <1>2, <1>3, FlagStep DEF base
<1>6. \A attr : CurrentOrBase(c, attr)
                    = CurrentOrBase(IF own[attr] # None THEN <<own>> ELSE base, attr)
  <2> TAKE attr
  <2>1. CurrentOrBase(c, attr) = IF own[attr] # None THEN own[attr]
                                 ELSE CurrentOrBase(base, attr)
    BY <1>1, <1>2, CurrentOrBaseStep DEF base
  <2>2. CurrentOrBase(<<own>>, attr) = own[attr]
    BY <1>2, CurrentOrBaseOne
  <2> QED
    BY <2>1, <2>2
<1>7. httpdef.timeout = LoadedTimeout(IF own.timeout # None THEN <<own>> ELSE base)
  BY <1>3, <1>6 DEF LoadedTimeout
<1>8. httpdef.proxy = CurrentOrBase(IF own.proxy # None THEN <<own>> ELSE base, "proxy")
  BY <1>3, <1>6
<1>9. "no_parent_script" \in own.extra_args => httpdef.script = own.script_wrap
  BY <1>3 DEF LoadedScript, own
<1>10. \A k \in Keys : IsSuffix(own.query[k], httpdef.query[k])
  BY <1>1, <1>2, <1>3, QueryEnds
<1>11. ASSUME NEW h \in HeaderNames, own.headers[h] # None
       PROVE  httpdef.headers[h] = own.headers[h]
  <2> DEFINE o == LoadOrder(c)
             L == Len(c)
  <2>1. 1 \in DOMAIN c /\ c[1].headers[h] # None /\ o[L] = c[1] /\ L \in 1..L /\ L \in Nat
    BY <1>1, <1>2, <1>11, OrderOf
  <2>2. PICK i \in 1..L :
            /\ o[i].headers[h] # None /\ LoadedHeaders(c)[h] = o[i].headers[h]
            /\ \A j \in 1..L : o[j].headers[h] # None => i >= j
    BY <1>1, <2>1, HeaderOf
  <2> HIDE DEF o, L
  <2>3. i = L
    BY <2>1, <2>2
  <2> QED
    BY <1>2, <1>3, <2>1, <2>2, <2>3
<1>12. ASSUME NEW h \in HeaderNames, NEW i \in DOMAIN base, Known(h) = {i + 1}
       PROVE  httpdef.headers[h] = LoadedHeaders(base)[h]
  <2> DEFINE L == Len(c)
             t == base
             o == LoadOrder(t)
  <2>1. /\ \A j \in DOMAIN c : c[j].headers[h] # None <=> j = i + 1
        /\ i + 1 \in 2..L /\ i \in 1..L - 1 /\ DOMAIN t = 1..L - 1 /\ L \in Nat
        /\ \A j \in 1..L - 1 : t[j] = c[j + 1]
    BY <1>2, <1>12 DEF Known, c
  <2>2. httpdef.headers[h] = t[i].headers[h]
    <3>1. LoadedHeaders(c)[h] = c[i + 1].headers[h]
      BY <1>1, <2>1, HeaderOnce
    <3> QED
      BY <1>3, <2>1, <3>1
  <2>3. \A j \in DOMAIN t : t[j].headers[h] # None <=> j = i
    <3> TAKE j \in DOMAIN t
    <3>1. j + 1 \in DOMAIN c /\ t[j] = c[j + 1] /\ (j + 1 = i + 1 <=> j = i)
      BY <1>2, <2>1
    <3> QED
      BY <2>1, <3>1
  <2>4. Len(t) = L - 1 /\ Chain(t)
    BY <1>1, <1>2, BaseIsChain DEF base
  <2>5. CASE i # 1
    <3>1. Len(t) > 1 /\ i \in 2..Len(t)
      BY <2>1, <2>4, <2>5
    <3> HIDE DEF t, L
    <3>2. LoadedHeaders(t)[h] = t[i].headers[h]
      BY <2>3, <2>4, <3>1, HeaderOnce
    <3> QED
      BY <2>2, <3>2 DEF t
  <2>6. CASE i = 1
    <3> HIDE DEF t, L
    <3>1. /\ o[L - 1] = t[1] /\ t[1].headers[h] # None /\ L - 1 \in 1..L - 1
          /\ 1 \in DOMAIN t /\ Len(t) = L - 1
      BY <2>1, <2>3, <2>4, <2>6, OrderOf
    <3>2. PICK j \in 1..L - 1 :
              /\ o[j].headers[h] # None /\ LoadedHeaders(t)[h] = o[j].headers[h]
              /\ \A m \in 1..L - 1 : o[m].headers[h] # None => j >= m
      BY <2>4, <3>1, HeaderOf
    <3> HIDE DEF o
    <3>3. j = L - 1
      BY <2>1, <3>1, <3>2
    <3> QED
      BY <2>2, <2>6, <3>1, <3>2, <3>3 DEF t
  <2> QED
    BY <2>5, <2>6
<1>13. ASSUME NEW h \in HeaderNames, Known(h) = {}
       PROVE  httpdef.headers[h] = DefaultHeaders[h]
  <2>1. \A i \in DOMAIN c : c[i].headers[h] = None
    BY <1>13 DEF Known, c
  <2>2. /\ \A i \in DOMAIN c : c[i].headers[h] = None
        /\ LoadedHeaders(c)[h] = DefaultHeaders[h]
    <3>1. ASSUME NEW i \in 1..Len(c)
          PROVE  LoadOrder(c)[i].headers[h] = None
      <4>1. CASE i = Len(c)
        <5>1. 1 \in DOMAIN c
          BY <1>1, ChainHead
        <5>2. LoadOrder(c)[i] = c[1]
          BY <1>1, <4>1, OrderOf
        <5> QED
          BY <2>1, <5>1, <5>2
      <4>2. CASE i # Len(c)
        <5>1. i \in 1..Len(c) - 1 /\ i + 1 \in DOMAIN c
          <6> DEFINE L == Len(c)
          <6>1. L \in Nat /\ i \in 1..L /\ i # L /\ DOMAIN c = 1..L
            BY <1>2, <4>2
          <6> HIDE DEF L
          <6>2. i \in 1..L - 1 /\ i + 1 \in DOMAIN c
            BY <6>1
          <6> QED
            BY <6>2 DEF L
        <5> QED
          BY <1>1, <2>1, <5>1, OrderOf
      <4> QED
        BY <4>1, <4>2
    <3> QED
      BY <1>1, <2>1, <3>1, HeaderOf
  <2> QED
    BY <1>3, <2>2
<1> QED
  BY <1>4, <1>5, <1>7, <1>8, <1>9, <1>10, <1>11, <1>12, <1>13 DEF base, own

-----------------------------------------------------------------------------
\* Every reachable state is one ConvTypeOK describes: once the loaders are
\* through, a request has a method, a url, headers, parameters and a payload,
\* and all that load_def reads is what the grammar builds, also when it reads
\* the text that format_http has written (parse/__init__.py:1016-1053).
THEOREM ConvTypeCorrect == ConvSpec => []ConvTypeOK
<1>1. ConvInv => ConvTypeOK
  BY TypesFromInv
<1> QED
  BY <1>1, ConvInvariant, PTL

\* A request to an AWS host is signed for the service and the region that the
\* host names (load_auth, parse/__init__.py:799-888), for every host, every
\* author's choice and every table of services and regions, and again so when
\* the text that shows it is loaded.
THEOREM SignedForTheHost == ConvSpec => []SignedForItsHost
<1>1. ConvInv => SignedForItsHost
  BY SignedFromInv
<1> QED
  BY <1>1, ConvInvariant, PTL

\* A definition gets from the definitions it extends what they would have been
\* loaded with (load_def's loaders, parse/__init__.py:424-629), for a chain of
\* any length.
THEOREM BasesAreInherited == ConvSpec => []GetsWhatItsBaseHas
<1>1. ConvInv => GetsWhatItsBaseHas
  BY BaseFromInv
<1> QED
  BY <1>1, ConvInvariant, PTL

\* The definition that get_http_from_req and format_http show for a request
\* sends that request again (computed.py:214-325, request_base.py:269-463).
THEOREM ShownIsSent == ConvSpec => []ShownSendsTheSame
<1>1. ConvInv => ShownSendsTheSame
  BY ShownFromInv
<1> QED
  BY <1>1, ConvInvariant, PTL

\* What http2postman.py writes and postman2http.py reads again keeps the query,
\* the body, most authentication, and a bare url.
THEOREM PostmanIsKept == ConvSpec => []PostmanKeeps
<1>1. ConvInv => PostmanKeeps
  BY PostmanFromInv
<1> QED
  BY <1>1, ConvInvariant, PTL

\* The body of an archive's entry and the key or token of a collection's item
\* are sent by what import_leaf_item and from_har make of them
\* (har2httphandler.py:26-87, postman2http.py:275-357).
THEOREM ImportsAreSent == ConvSpec => []ImportsSend
<1>1. ConvInv => ImportsSend
  BY ImportsFromInv
<1> QED
  BY <1>1, ConvInvariant, PTL

\* get_curl_output and get_har tell the url, the method, the query, the content
\* type and the signature that go out (request_base.py:165-252,
\* computed.py:98-212).
THEOREM ExportsAreTrue == ConvSpec => []ExportsTellTheRequest
<1>1. ConvInv => ExportsTellTheRequest
  BY ExportsFromInv
<1> QED
  BY <1>1, ConvInvariant, PTL

-----------------------------------------------------------------------------
USE SelectTargetAssumption DEF SelectTargetAssumption, Nothing

\* Where the definitions of a file are, and what they are like.
LEMMA FileTypes ==
    ASSUME file \in Files
    PROVE  /\ Defs \subseteq Nat \ {0}
           /\ 1 \in Defs
           /\ \A i \in Defs : /\ file[i].name \in Names \cup {NoName}
                              /\ file[i].base \in Names \cup {NoName}
                              /\ file[i].name = NoName => file[i].base = NoName
<1>1. PICK n \in 1..MaxDefs : file \in [1..n -> Definition]
  BY DEF Files
<1>2. Defs = 1..n
  BY <1>1 DEF Defs
<1>3. \A i \in Defs : file[i] \in Definition
  BY <1>1, <1>2
<1>4. NoName \notin Names
  <2>1. Numbers \subseteq Int /\ NoName \notin Int /\ NoName \notin Words
    OBVIOUS
  <2> QED
    BY <2>1 DEF Names
<1> QED
  BY <1>2, <1>3, <1>4 DEF Definition

\* get_target returns a definition of the file or raises.
LEMMA GetTargetResult ==
    ASSUME file \in Files, NEW t
    PROVE  GetTarget(t) \in Defs \cup {Nothing}
<1> DEFINE S == {i \in Defs : file[i].name = t}
<1>1. CASE t \in Numbers
  BY <1>1 DEF GetTarget
<1>2. CASE t \notin Numbers /\ S = {}
  BY <1>2 DEF GetTarget
<1>3. CASE t \notin Numbers /\ S # {}
  <2>1. \E i \in S : \A j \in S : i <= j
    BY <1>3, FileTypes, LeastElement
  <2> QED
    BY <1>3, <2>1 DEF GetTarget
<1> QED
  BY <1>1, <1>2, <1>3

\* The definition a definition extends is one of the file.
LEMMA BaseResult ==
    ASSUME file \in Files, NEW i \in Defs
    PROVE  Base(i) \in Defs \cup {Nothing}
BY GetTargetResult DEF Base

-----------------------------------------------------------------------------
\* The definitions the request inherits from so far, and the last one the
\* loop has come to.
Listed == {parents[i] : i \in DOMAIN parents}

Latest == IF parents = <<>> THEN http ELSE parents[Len(parents)]

Started == pc \in {"extend", "ready", "undefined"}

\* Before a definition is selected nothing is inherited; the loop looks for
\* the base of the last definition it came to.
WalkInv ==
    /\ ~Started => parents = <<>>
    /\ Started => http \in Defs
    /\ pc = "extend" => parent = file[Latest].base /\ parent # NoName
    /\ pc = "ready" => file[Latest].base = NoName

\* The loop leaves no definition on its way out.
ClosedInv ==
    Started => /\ parents # <<>> => Base(http) \in Listed
               /\ \A x \in Listed : x # Latest => Base(x) \in Listed

\* What the loop has come to is in every set that contains the ancestors.
AncestorInv ==
    Started => \A S \in SUBSET Defs : ClosedUnderBase(S, http) => Listed \subseteq S

\* The loop comes to definitions of lower and lower rank.
DescentInv ==
    Started =>
        \A rank \in [Defs -> Ranks] : DescendsBy(rank) =>
            /\ \A i \in DOMAIN parents : rank[parents[i]] < rank[http]
            /\ \A i, j \in DOMAIN parents : i < j => rank[parents[j]] < rank[parents[i]]

IInv == TypeOK /\ WalkInv /\ ClosedInv /\ AncestorInv /\ DescentInv

-----------------------------------------------------------------------------
\* The invariant holds initially.
LEMMA InvInit == Init => IInv
BY DEF Init, IInv, TypeOK, WalkInv, ClosedInv, AncestorInv, DescentInv, Started

\* What one round of the loop adds.
LEMMA OneMoreParent ==
    ASSUME parents \in Seq(Defs), NEW x, parents' = Append(parents, x)
    PROVE  /\ Len(parents) \in Nat
           /\ DOMAIN parents = 1..Len(parents)
           /\ DOMAIN parents' = 1..Len(parents) \cup {Len(parents) + 1}
           /\ \A i \in DOMAIN parents : parents'[i] = parents[i]
           /\ parents'[Len(parents) + 1] = x
           /\ Listed' = Listed \cup {x}
           /\ Latest' = x
           /\ parents' # <<>>
<1>1. /\ Len(parents) \in Nat
      /\ DOMAIN parents = 1..Len(parents)
      /\ Len(parents') = Len(parents) + 1
      /\ DOMAIN parents' = 1..(Len(parents) + 1)
      /\ \A i \in DOMAIN parents : parents'[i] = parents[i]
      /\ parents'[Len(parents) + 1] = x
      /\ parents' # <<>>
  OBVIOUS
<1>2. 1..(Len(parents) + 1) = 1..Len(parents) \cup {Len(parents) + 1}
  BY <1>1
<1>3. Listed' = Listed \cup {x}
  BY <1>1, <1>2 DEF Listed
<1>4. Latest' = x
  BY <1>1 DEF Latest
<1> QED
  BY <1>1, <1>2, <1>3, <1>4

\* One round of the loop keeps the invariant.
LEMMA ExtendStep == IInv /\ Extend => IInv'
<1> SUFFICES ASSUME IInv, Extend PROVE IInv'
  OBVIOUS
<1> DEFINE grand == GetTarget(parent)
<1>1. /\ file \in Files /\ file' = file /\ target' = target /\ http' = http
      /\ http \in Defs /\ pc = "extend" /\ Started
      /\ grand # Nothing
      /\ parents' = Append(parents, grand)
      /\ parents \in Seq(Defs) /\ Len(parents) < MaxWalk
      /\ target \in Names \cup {NoName}
  BY DEF Extend, input, IInv, TypeOK, WalkInv, Started
<1>2. grand \in Defs
  BY <1>1, GetTargetResult
<1>3. /\ Len(parents) \in Nat
      /\ DOMAIN parents = 1..Len(parents)
      /\ DOMAIN parents' = 1..Len(parents) \cup {Len(parents) + 1}
      /\ \A i \in DOMAIN parents : parents'[i] = parents[i]
      /\ parents'[Len(parents) + 1] = grand
      /\ Listed' = Listed \cup {grand}
      /\ Latest' = grand
      /\ parents' # <<>>
  BY <1>1, OneMoreParent
<1>4. Latest \in Defs /\ (parents # <<>> => Latest \in Listed /\ Latest = parents[Len(parents)])
      /\ (parents = <<>> => Latest = http)
  BY <1>1, <1>3 DEF Latest, Listed
<1>5. Base(Latest) = grand
  BY <1>1, <1>4 DEF IInv, WalkInv, Base
<1>6. Started' /\ (pc' = "extend" => parent' = file[grand].base /\ parent' # NoName)
      /\ (pc' = "ready" => file[grand].base = NoName)
      /\ pc' \in {"extend", "ready", "undefined"}
      /\ parent' \in Names \cup {NoName}
  BY <1>1, <1>2, FileTypes DEF Extend, Started, IInv, TypeOK
<1>7. \A i \in Defs : Base(i)' = Base(i)
  BY <1>1 DEF Base, GetTarget, Defs
<1>8. Defs' = Defs
  BY <1>1 DEF Defs
<1>9. Listed \subseteq Defs
  BY <1>1 DEF Listed
<1> HIDE DEF grand
<1>10. TypeOK'
  <2>1. parents' \in Seq(Defs) /\ Len(parents') <= MaxWalk
    BY <1>1, <1>2
  <2> QED
    BY <1>1, <1>6, <1>8, <2>1 DEF TypeOK, Ended
<1>11. WalkInv'
  BY <1>1, <1>3, <1>6, <1>8 DEF WalkInv
<1>12. ClosedInv'
  <2>1. Base(http) \in Listed'
    BY <1>1, <1>3, <1>4, <1>5 DEF IInv, ClosedInv
  <2>2. ASSUME NEW x \in Listed', x # grand PROVE Base(x) \in Listed'
    BY <1>1, <1>3, <1>4, <1>5, <2>2 DEF IInv, ClosedInv
  <2> QED
    BY <1>1, <1>2, <1>3, <1>7, <1>9, <2>1, <2>2 DEF ClosedInv
<1>13. AncestorInv'
  <2>1. ASSUME NEW S \in SUBSET Defs, ClosedUnderBase(S, http)'
        PROVE  Listed' \subseteq S
    <3>1. ClosedUnderBase(S, http)
      BY <1>1, <1>7, <2>1 DEF ClosedUnderBase
    <3>2. Listed \subseteq S
      BY <1>1, <3>1 DEF IInv, AncestorInv
    <3>3. grand \in S
      BY <1>1, <1>2, <1>4, <1>5, <3>1, <3>2, FileTypes DEF ClosedUnderBase
    <3> QED
      BY <1>3, <3>2, <3>3
  <2> QED
    BY <1>1, <1>8, <2>1 DEF AncestorInv, ClosedUnderBase
<1>14. DescentInv'
  <2>1. ASSUME NEW rank \in [Defs -> Ranks], DescendsBy(rank)'
        PROVE  /\ \A i \in DOMAIN parents' : rank[parents'[i]] < rank[http]
               /\ \A i, j \in DOMAIN parents' : i < j => rank[parents'[j]] < rank[parents'[i]]
    <3>1. DescendsBy(rank)
      BY <1>7, <1>8, <2>1 DEF DescendsBy
    <3>2. /\ \A i \in DOMAIN parents : rank[parents[i]] < rank[http]
          /\ \A i, j \in DOMAIN parents : i < j => rank[parents[j]] < rank[parents[i]]
      BY <1>1, <3>1 DEF IInv, DescentInv
    <3>3. rank[grand] < rank[Latest]
      BY <1>1, <1>4, <1>5, <3>1 DEF DescendsBy
    <3>4. /\ rank[grand] \in Int /\ rank[http] \in Int
          /\ \A i \in DOMAIN parents : parents[i] \in Defs /\ rank[parents[i]] \in Int
      BY <1>1, <1>2 DEF Ranks
    <3>5. rank[grand] < rank[http] /\ \A i \in DOMAIN parents : rank[grand] < rank[parents[i]]
      <4>1. CASE parents = <<>>
        BY <1>3, <1>4, <3>3, <4>1
      <4>2. CASE parents # <<>>
        <5>1. Len(parents) \in DOMAIN parents /\ Latest = parents[Len(parents)]
          BY <1>1, <1>3, <1>4, <4>2
        <5>2. ASSUME NEW i \in DOMAIN parents PROVE rank[grand] < rank[parents[i]]
          <6>1. i = Len(parents) \/ i < Len(parents)
            BY <1>3
          <6> QED
            BY <3>2, <3>3, <3>4, <5>1, <6>1
        <5> QED
          BY <3>2, <3>3, <3>4, <5>1, <5>2
      <4> QED
        BY <4>1, <4>2
    <3>6. ASSUME NEW i \in DOMAIN parents', NEW j \in DOMAIN parents', i < j
          PROVE  rank[parents'[j]] < rank[parents'[i]]
      <4>1. i \in DOMAIN parents /\ (j \in DOMAIN parents \/ j = Len(parents) + 1)
        BY <1>3, <3>6
      <4> QED
        BY <1>3, <3>2, <3>5, <3>6, <4>1
    <3> QED
      BY <1>3, <3>2, <3>5, <3>6
  <2> QED
    BY <1>1, <1>8, <2>1 DEF DescentInv, Ranks
<1> QED
  BY <1>10, <1>11, <1>12, <1>13, <1>14 DEF IInv

\* Every step keeps the invariant.
LEMMA InvStep == IInv /\ [Next]_vars => IInv'
<1> SUFFICES ASSUME IInv, [Next]_vars PROVE IInv'
  OBVIOUS
<1>1. TypeOK /\ file \in Files
  BY DEF IInv, TypeOK
<1>2. CASE ValidateNames
  BY <1>2, <1>1 DEF ValidateNames, input, IInv, TypeOK, WalkInv, ClosedInv, AncestorInv,
     DescentInv, Started, Ended, Defs
<1>3. CASE SelectFails
  BY <1>3, <1>1 DEF SelectFails, input, IInv, TypeOK, WalkInv, ClosedInv, AncestorInv,
     DescentInv, Started, Ended, Defs
<1>4. CASE SelectHttp
  <2>1. Selected \in Defs
    BY <1>1, <1>4, FileTypes, GetTargetResult DEF SelectHttp, Selected
  <2>2. /\ http' = Selected /\ UNCHANGED <<file, target, parents>>
        /\ parents = <<>> /\ parent' = file[Selected].base
        /\ pc' \in {"ready", "refused", "extend"}
        /\ pc' = "ready" => file[Selected].base = NoName
        /\ pc' = "extend" => file[Selected].base # NoName
    BY <1>4 DEF SelectHttp, input, IInv, WalkInv, Started
  <2>3. TypeOK'
    <3>1. file[Selected].base \in Names \cup {NoName}
      BY <1>1, <2>1, FileTypes
    <3> QED
      BY <1>1, <2>1, <2>2, <3>1 DEF TypeOK, Ended, Defs
  <2>4. WalkInv'
    BY <2>1, <2>2 DEF WalkInv, Started, Latest, Defs
  <2>5. Listed' = {} /\ DOMAIN parents' = {}
    BY <2>2 DEF Listed
  <2> QED
    BY <2>2, <2>3, <2>4, <2>5 DEF IInv, ClosedInv, AncestorInv, DescentInv
<1>5. CASE Extend
  BY <1>5, ExtendStep
<1>6. ASSUME UNCHANGED <<file, target, http, parent, parents>>, Started' = Started,
             pc' \in {"undefined", pc}
      PROVE  IInv'
  <2>1. Defs' = Defs /\ Listed' = Listed /\ Latest' = Latest
    BY <1>6 DEF Defs, Listed, Latest
  <2>2. \A i \in Defs : Base(i)' = Base(i)
    BY <1>6, <2>1 DEF Base, GetTarget
  <2>3. Listed \subseteq Defs
    BY <1>1 DEF Listed, TypeOK
  <2>4. TypeOK'
    BY <1>1, <1>6, <2>1 DEF TypeOK, Ended
  <2>5. WalkInv'
    BY <1>6, <2>1 DEF IInv, WalkInv
  <2>6. ClosedInv'
    BY <1>6, <2>1, <2>2, <2>3 DEF IInv, ClosedInv, WalkInv
  <2>7. AncestorInv'
    <3>1. ASSUME NEW S \in SUBSET Defs, http \in Defs, ClosedUnderBase(S, http)'
          PROVE  ClosedUnderBase(S, http)
      BY <1>6, <2>2, <3>1 DEF ClosedUnderBase
    <3> QED
      BY <1>6, <2>1, <3>1 DEF IInv, AncestorInv, WalkInv
  <2>8. DescentInv'
    <3>1. ASSUME NEW rank, DescendsBy(rank)' PROVE DescendsBy(rank)
      BY <2>1, <2>2, <3>1 DEF DescendsBy
    <3> QED
      BY <1>6, <2>1, <3>1 DEF IInv, DescentInv, Ranks
  <2> QED
    BY <2>4, <2>5, <2>6, <2>7, <2>8 DEF IInv
<1>7. CASE ExtendFails \/ UNCHANGED vars
  BY <1>6, <1>7 DEF ExtendFails, vars, input, Started
<1> QED
  BY <1>2, <1>3, <1>4, <1>5, <1>7 DEF Next

\* The invariant holds in every reachable state.
THEOREM Invariance == Spec => []IInv
BY InvInit, InvStep, PTL DEF Spec

\* Type correctness for files of any length.
THEOREM TypeCorrect == Spec => []TypeOK
<1>1. IInv => TypeOK
  BY DEF IInv
<1> QED
  BY <1>1, Invariance, PTL

-----------------------------------------------------------------------------
\* A loop that descends comes to no definition twice.
LEMMA DescentMeetsNoneTwice == IInv => NoneTwice
<1> SUFFICES ASSUME IInv, Acyclic,
                    NEW i \in DOMAIN parents, NEW j \in DOMAIN parents
             PROVE  parents[i] # http /\ (parents[i] = parents[j] => i = j)
  BY DEF NoneTwice
<1>1. PICK rank \in [Defs -> Ranks] : DescendsBy(rank)
  BY DEF Acyclic
<1>2. parents \in Seq(Defs)
  BY DEF IInv, TypeOK
<1>3. i \in Nat /\ j \in Nat /\ parents[i] \in Defs /\ parents[j] \in Defs
  BY <1>2
<1>4. Started /\ http \in Defs
  BY <1>2 DEF IInv, WalkInv
<1>5. /\ rank[parents[i]] < rank[http]
      /\ i < j => rank[parents[j]] < rank[parents[i]]
      /\ j < i => rank[parents[i]] < rank[parents[j]]
  BY <1>1, <1>4 DEF IInv, DescentInv
<1>6. rank[http] \in Int /\ rank[parents[i]] \in Int /\ rank[parents[j]] \in Int
  BY <1>3, <1>4 DEF Ranks
<1> QED
  BY <1>3, <1>5, <1>6

\* In a file of any length without circular bases the loop of select_target
\* meets no definition twice.
THEOREM MeetsNoneTwice == Spec => []NoneTwice
BY Invariance, DescentMeetsNoneTwice, PTL

\* Definitions the loop has come to are the ancestors once it is through.
LEMMA ReadyHasAncestors == IInv => InheritsFromAncestors
<1> SUFFICES ASSUME IInv, pc = "ready" PROVE Listed = Ancestors(http)
  BY DEF InheritsFromAncestors, Listed
<1>1. /\ Started /\ http \in Defs /\ parents \in Seq(Defs) /\ file \in Files
      /\ file[Latest].base = NoName
  BY DEF IInv, WalkInv, Started, TypeOK
<1>2. Listed \subseteq Defs
  BY <1>1 DEF Listed
<1>3. Listed \subseteq Ancestors(http)
  BY <1>1, <1>2 DEF IInv, AncestorInv, Ancestors
<1>4. ClosedUnderBase(Listed, http)
  <2>1. Base(Latest) = Nothing
    BY <1>1 DEF Base
  <2>2. Base(http) \in Listed \cup {Nothing}
    BY <1>1, <2>1 DEF IInv, ClosedInv, Latest
  <2>3. \A x \in Listed : Base(x) \in Listed \cup {Nothing}
    BY <1>1, <2>1 DEF IInv, ClosedInv
  <2> QED
    BY <2>2, <2>3 DEF ClosedUnderBase
<1>5. Ancestors(http) \subseteq Listed
  BY <1>2, <1>4 DEF Ancestors
<1> QED
  BY <1>3, <1>5

\* Whenever select_target returns, parents_http holds exactly the ancestors
\* of the selected definition.
THEOREM InheritsExactly == Spec => []InheritsFromAncestors
BY Invariance, ReadyHasAncestors, PTL

-----------------------------------------------------------------------------
\* Past validate_names no name appeared before.
ValidatedInv == pc \in {"select", "extend", "ready", "undefined"} => ~NameAppeared

\* validate_names lets a file pass only so.
LEMMA ValidatedInit == Init => ValidatedInv
BY DEF Init, ValidatedInv

\* Nothing changes the file afterwards.
LEMMA ValidatedStep == ValidatedInv /\ [Next]_vars => ValidatedInv'
<1> SUFFICES ASSUME ValidatedInv, [Next]_vars PROVE ValidatedInv'
  OBVIOUS
<1>1. file' = file
  BY DEF Next, ValidateNames, SelectFails, SelectHttp, Extend, ExtendFails, vars, input
<1>2. NameAppeared' = NameAppeared
  BY <1>1 DEF NameAppeared, Label, Defs
<1>3. CASE ValidateNames
  BY <1>2, <1>3 DEF ValidateNames, ValidatedInv
<1>4. CASE SelectFails \/ SelectHttp \/ Extend \/ ExtendFails \/ UNCHANGED vars
  BY <1>2, <1>4 DEF SelectFails, SelectHttp, Extend, ExtendFails, ValidatedInv, vars
<1> QED
  BY <1>3, <1>4 DEF Next

\* What get_target finds in a file in which no name appeared before.
LEMMA NamesAreUnambiguous ==
    ASSUME file \in Files, ~NameAppeared, NEW i \in Defs,
           file[i].name \in Words \/ file[i].name \in 1..i
    PROVE  GetTarget(file[i].name) = i
<1> DEFINE t == file[i].name
<1>1. PICK n \in 1..MaxDefs : Defs = 1..n
  BY DEF Files, Defs
<1>2. t \in Names \cup {NoName}
  BY FileTypes
<1>3. CASE t \in Words
  <2>1. t \notin Numbers /\ t # NoName
    <3>1. Numbers \subseteq Int /\ NoName \notin Words
      OBVIOUS
    <3>2. t \notin Int
      BY <1>3
    <3> QED
      BY <1>3, <3>1, <3>2
  <2>2. ASSUME NEW j \in Defs, NEW k \in Defs, file[j].name = t, file[k].name = t PROVE ~(j < k)
    BY <2>1, <2>2 DEF NameAppeared, Label
  <2>3. \A j \in Defs : file[j].name = t => j = i
    BY <1>1, <2>2
  <2>4. \A j \in Defs : file[j].name = t => i <= j
    BY <1>1, <2>3
  <2>5. \A k \in Defs : (file[k].name = t /\ \A j \in Defs : file[j].name = t => k <= j) => k = i
    BY <2>3
  <2> QED
    BY <2>1, <2>4, <2>5 DEF GetTarget
<1>4. CASE t \in 1..i
  <2>1. t \in Numbers /\ t # NoName
    <3>1. t \in Int
      BY <1>1, <1>4
    <3>2. t \notin Words /\ t # NoName
      BY <3>1
    <3> QED
      BY <1>2, <3>2 DEF Names
  <2>2. t \in Defs
    BY <1>1, <1>4
  <2>3. ~(t < i)
    BY <2>1, <2>2 DEF NameAppeared, Label
  <2>4. t = i
    BY <1>1, <1>4, <2>3
  <2> QED
    BY <2>1, <2>4 DEF GetTarget
<1> QED
  BY <1>3, <1>4

\* In a validated file of any length a word selects the one definition of
\* that name, and so does a number up to the definition's position.
THEOREM NamesSelect == Spec => []NamesSelectTheirDefinition
<1>1. IInv /\ ValidatedInv => NamesSelectTheirDefinition
  <2> SUFFICES ASSUME IInv, ValidatedInv,
                      pc \in {"select", "extend", "ready", "undefined"},
                      NEW i \in Defs,
                      file[i].name \in Words \/ file[i].name \in 1..i
               PROVE  GetTarget(file[i].name) = i
    BY DEF NamesSelectTheirDefinition
  <2> QED
    BY NamesAreUnambiguous DEF ValidatedInv, IInv, TypeOK
<1> QED
  BY <1>1, Invariance, ValidatedInit, ValidatedStep, PTL DEF Spec

-----------------------------------------------------------------------------
\* The first of some numbers is one of them.
LEMMA FirstIsOne ==
    ASSUME NEW S, S \subseteq Nat, S # {}
    PROVE  First(S) \in S
<1>1. \E i \in S : \A j \in S : i <= j
  BY LeastElement
<1> QED
  BY <1>1 DEF First

\* The element found in a definition is one the cursor is in.
LEMMA Picked ==
    ASSUME NEW def, IsDefinition(def), NEW position, PickInHttp(def, position) # Comment
    PROVE  \E e \in DOMAIN def.elements :
              /\ InBetween(def.elements[e], position)
              /\ PickInHttp(def, position) = def.elements[e].type
<1> DEFINE found == {e \in DOMAIN def.elements :
                       /\ def.elements[e].type # "ntlm_auth"
                       /\ InBetween(def.elements[e], position)}
<1>1. found # {}
  BY DEF PickInHttp
<1>2. found \subseteq Nat
  BY DEF IsDefinition
<1>3. First(found) \in found
  BY <1>1, <1>2, FirstIsOne
<1>4. PickInHttp(def, position) = def.elements[First(found)].type
  BY <1>1 DEF PickInHttp
<1> QED
  BY <1>3, <1>4

\* What the cursor is on: an element of a definition it is in, with the label
\* of the definition and the beginning of its base.
LEMMA Figured ==
    ASSUME file \in Files, NEW n \in Defs, NEW layout \in Layouts[n], NEW position \in Positions,
           FigureNGet(layout, position).target # NoName
    PROVE  \E d \in 1..n :
              /\ InBetween(layout.allhttps[d], position)
              /\ FigureNGet(layout, position).target = Label(d)
              /\ FigureNGet(layout, position).start # Nothing =>
                    FigureNGet(layout, position).start = layout.allhttps[Base(d)].from
              /\ \E e \in DOMAIN layout.allhttps[d].elements :
                    /\ InBetween(layout.allhttps[d].elements[e], position)
                    /\ FigureNGet(layout, position).type = layout.allhttps[d].elements[e].type
<1> DEFINE result == FigureNGet(layout, position)
           found == {i \in DOMAIN layout.allhttps :
                       /\ InBetween(layout.allhttps[i], position)
                       /\ PickInHttp(layout.allhttps[i], position) # Comment}
           d == First(found)
           type == PickInHttp(layout.allhttps[d], position)
<1>1. n \in 1..MaxDefs
  <2>1. PICK m \in 1..MaxDefs : Defs = 1..m
    BY DEF Files, Defs
  <2> QED
    BY <2>1
<1>2. DOMAIN layout.allhttps = 1..n /\ \A i \in 1..n : IsDefinition(layout.allhttps[i])
  BY <1>1, TypeFromPosAssumption DEF TypeFromPosAssumption
<1>3. found # {} /\ result = ResultFor(layout, d, type)
  <2>1. NoTarget.target = NoName /\ [NoTarget EXCEPT !.type = "import"].target = NoName
        /\ [NoTarget EXCEPT !.type = "variable"].target = NoName
    BY DEF NoTarget
  <2> HIDE DEF found
  <2> QED
    BY <2>1 DEF FigureNGet, found
<1>4. d \in found
  <2>1. found \subseteq Nat
    BY <1>2
  <2> HIDE DEF found
  <2> QED
    BY <1>3, <2>1, FirstIsOne
<1>5. d \in 1..n /\ InBetween(layout.allhttps[d], position) /\ type # Comment
  BY <1>2, <1>4
<1> HIDE DEF d, found, result
<1>6. \E e \in DOMAIN layout.allhttps[d].elements :
         /\ InBetween(layout.allhttps[d].elements[e], position)
         /\ type = layout.allhttps[d].elements[e].type
  BY <1>2, <1>5, Picked
<1>7. result.type = type /\ result.target = Label(d)
  BY <1>3 DEF ResultFor
<1>8. result.start # Nothing => result.start = layout.allhttps[Base(d)].from
  <2>1. result.start = LET base == OwnTarget(layout, file[d].base)
                       IN IF file[d].base = NoName \/ base = Nothing THEN Nothing
                          ELSE layout.allhttps[base].from
    BY <1>3 DEF ResultFor
  <2> QED
    BY <2>1 DEF OwnTarget, Base
<1> QED
  BY <1>5, <1>6, <1>7, <1>8 DEF result

\* The label of a definition stands for it, unless it is misleading.
LEMMA LabelStandsFor ==
    ASSUME file \in Files, ~NameAppeared, NEW d \in Defs, ~Misleading(d)
    PROVE  /\ Label(d) # NoName
           /\ Label(d) \in Defs => Label(d) = d
           /\ Label(d) \notin Defs => GetTarget(Label(d)) = d
           /\ file[d].name = NoName \/ GetTarget(Label(d)) = d
<1>0. d \in Nat /\ d # 0 /\ file[d].name \in Names \cup {NoName}
  BY FileTypes
<1>1. CASE file[d].name = NoName
  <2>1. Label(d) = d
    BY <1>1 DEF Label
  <2>2. d # NoName
    BY <1>0
  <2> QED
    BY <1>1, <2>1, <2>2
<1>2. CASE file[d].name # NoName
  <2>1. Label(d) = file[d].name
    BY <1>2 DEF Label
  <2>2. CASE file[d].name \in Words
    <3>1. file[d].name \notin Defs
      <4>1. file[d].name \notin Int
        BY <2>2
      <4>2. Defs \subseteq Int
        BY FileTypes
      <4> QED
        BY <4>1, <4>2
    <3> QED
      BY <1>2, <2>1, <2>2, <3>1, NamesAreUnambiguous
  <2>3. CASE file[d].name \in Numbers
    <3>1. file[d].name \in 1..d
      BY <2>3 DEF Misleading
    <3>2. GetTarget(file[d].name) = d
      BY <3>1, NamesAreUnambiguous
    <3>3. file[d].name = d
      <4>1. GetTarget(file[d].name) \in {file[d].name, Nothing}
        BY <2>3 DEF GetTarget
      <4> QED
        BY <1>0, <3>2, <4>1
    <3> QED
      BY <1>2, <2>1, <3>2, <3>3
  <2> QED
    BY <1>0, <1>2, <2>2, <2>3 DEF Names
<1> QED
  BY <1>1, <1>2

\* An entry of the list of names points into its definition.
LEMMA EntryInside ==
    ASSUME NEW def, IsDefinition(def), NEW begins \in SUBSET (DOMAIN def.elements),
           NEW start, start = IF begins = {} THEN def.from ELSE def.elements[First(begins)].from
    PROVE  def.from <= start /\ start < def.to
<1>1. CASE begins = {}
  BY <1>1 DEF IsDefinition
<1>2. CASE begins # {}
  <2>1. First(begins) \in begins
    BY <1>2, FirstIsOne DEF IsDefinition
  <2> QED
    BY <1>2, <2>1 DEF IsDefinition
<1> QED
  BY <1>1, <1>2

\* The cursor of an editor selects the definition it is in, and an entry of
\* the list of names the definition it points at, for any file that passed
\* validate_names, laid out in any way (gohandler.py:64-199,
\* basic_handlers.py:341-402, 448-500).
THEOREM CursorSelects == Spec => []CursorSelectsItsDefinition
<1>1. IInv /\ ValidatedInv => CursorSelectsItsDefinition
  <2> SUFFICES ASSUME IInv, ValidatedInv, pc = "select",
                      NEW n \in Defs, NEW layout \in Layouts[n]
               PROVE  /\ \A position \in Positions :
                            LET result == FigureNGet(layout, position)
                                i == ResolvedDefinition(layout, position)
                            IN result.target # NoName =>
                                  \E d \in 1..n :
                                     /\ InBetween(layout.allhttps[d], position)
                                     /\ Misleading(d) \/ i = d
                                     /\ result.start # Nothing =>
                                           result.start = layout.allhttps[Base(d)].from
                                     /\ \E e \in DOMAIN layout.allhttps[d].elements :
                                           /\ InBetween(layout.allhttps[d].elements[e], position)
                                           /\ result.type = layout.allhttps[d].elements[e].type
                      /\ \A d \in 1..n :
                            LET entry == NamesListed(layout)[d]
                            IN /\ Misleading(d) \/ file[d].name = NoName \/ GetTarget(entry.name) = d
                               /\ layout.allhttps[d].from <= entry.start
                               /\ entry.start < entry.end
    BY DEF CursorSelectsItsDefinition
  <2>1. file \in Files /\ ~NameAppeared
    BY DEF IInv, TypeOK, ValidatedInv
  <2>2. n \in 1..MaxDefs /\ 1..n \subseteq Defs
    <3>1. PICK m \in 1..MaxDefs : Defs = 1..m
      BY <2>1 DEF Files, Defs
    <3> QED
      BY <3>1
  <2>3. DOMAIN layout.allhttps = 1..n /\ \A i \in 1..n : IsDefinition(layout.allhttps[i])
    BY <2>2, TypeFromPosAssumption DEF TypeFromPosAssumption
  <2>4. ASSUME NEW position \in Positions, FigureNGet(layout, position).target # NoName
        PROVE  \E d \in 1..n :
                  /\ InBetween(layout.allhttps[d], position)
                  /\ Misleading(d) \/ ResolvedDefinition(layout, position) = d
                  /\ FigureNGet(layout, position).start # Nothing =>
                        FigureNGet(layout, position).start = layout.allhttps[Base(d)].from
                  /\ \E e \in DOMAIN layout.allhttps[d].elements :
                        /\ InBetween(layout.allhttps[d].elements[e], position)
                        /\ FigureNGet(layout, position).type = layout.allhttps[d].elements[e].type
    <3>1. PICK d \in 1..n :
              /\ InBetween(layout.allhttps[d], position)
              /\ FigureNGet(layout, position).target = Label(d)
              /\ FigureNGet(layout, position).start # Nothing =>
                    FigureNGet(layout, position).start = layout.allhttps[Base(d)].from
              /\ \E e \in DOMAIN layout.allhttps[d].elements :
                    /\ InBetween(layout.allhttps[d].elements[e], position)
                    /\ FigureNGet(layout, position).type = layout.allhttps[d].elements[e].type
      BY <2>1, <2>4, Figured
    <3>2. ASSUME ~Misleading(d) PROVE ResolvedDefinition(layout, position) = d
      BY <2>1, <2>2, <3>1, <3>2, LabelStandsFor DEF ResolvedDefinition
    <3> QED
      BY <3>1, <3>2
  <2>5. ASSUME NEW d \in 1..n
        PROVE  /\ Misleading(d) \/ file[d].name = NoName \/ GetTarget(NamesListed(layout)[d].name) = d
               /\ layout.allhttps[d].from <= NamesListed(layout)[d].start
               /\ NamesListed(layout)[d].start < NamesListed(layout)[d].end
    <3> DEFINE def == layout.allhttps[d]
               begins == {e \in DOMAIN def.elements :
                            def.elements[e].type = IF file[d].name = NoName THEN "url" ELSE "name"}
    <3> DEFINE s == IF begins = {} THEN def.from ELSE def.elements[First(begins)].from
    <3>1. NamesListed(layout)[d] = [name |-> Label(d), start |-> s, end |-> def.to]
      BY <2>3 DEF NamesListed
    <3> HIDE DEF s
    <3>2. NamesListed(layout)[d].name = Label(d) /\ NamesListed(layout)[d].end = def.to
      BY <3>1
    <3>3. NamesListed(layout)[d].start = IF begins = {} THEN def.from ELSE def.elements[First(begins)].from
      <4>1. NamesListed(layout)[d].start = s
        BY <3>1
      <4> QED
        BY <4>1 DEF s
    <3>4. begins \in SUBSET (DOMAIN def.elements) /\ IsDefinition(def)
      BY <2>3
    <3> HIDE DEF begins, def
    <3>5. def.from <= NamesListed(layout)[d].start /\ NamesListed(layout)[d].start < def.to
      BY <3>3, <3>4, EntryInside
    <3>6. Misleading(d) \/ file[d].name = NoName \/ GetTarget(Label(d)) = d
      BY <2>1, <2>2, LabelStandsFor
    <3> QED
      BY <3>2, <3>5, <3>6 DEF def
  <2> QED
    BY <2>4, <2>5
<1> QED
  BY <1>1, Invariance, ValidatedInit, ValidatedStep, PTL DEF Spec
=============================================================================
