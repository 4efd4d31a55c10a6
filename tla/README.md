# TLA+ models of dothttp

dothttp runs HTTP requests that are written down in `.http` files. It is used as
a command line (`src/dothttp/__main__.py`) and as the language server of an
editor extension (`src/dotextensions/server`). This directory models the parts of
it in which order, sharing, failure or a loop decides whether a user gets the
right answer, checks them with TLC on small instances, and proves the most
important results for every instance with TLAPS.

`PROJECT.json` is the index: components, runs, mutants, the map from definitions
to source lines, findings, hazards and theorems.

    tlc -workers 2 -config CmdServer.cfg MCCmdServer     # one run
    tlapm CmdServer_proofs.tla                           # one module of proofs

## 1. Inventory

| component | state it keeps | operations | talks to |
|---|---|---|---|
| cmd server, `server.py:121-168`, `__main__.py` | thread pool and its queue, stdout and its buffer | read a line, submit, run a handler, write, flush, exit | handlers (call), editor (pipes) |
| async server, `server.py:176-233` | StreamReader, transport backlog | readline, run a handler in the loop, write without drain | handlers, editor |
| http server, `server.py:71-118` | none of its own | one flask thread per request | handlers |
| session and cookies, `request_base.py:94-150, 600-735` | class attributes `global_session`, `global_cookie_jar`, the jar file | get_cookie, get_session, prepare, send, save | every thread and process of the user |
| target selection, `parse/__init__.py:295-360` | `http`, `parents_http` | validate_names, get_target, select_target | everything later inherits along `parents_http` |
| inherited attributes, `parse/__init__.py:418-990` | `httpdef` | load_method, load_url, load_headers, load_auth ... | reads `parents_http`, property sources |
| imports, contexts, properties, `parse/__init__.py:193-277`, `basic_handlers.py:222-261`, `property_util.py` | infile, env, command line and system command properties, two lists of errors | load order, import, override, resolve | script, load_def |
| scripts, `script/js3py.py` | properties and what a script changed | init, pre-request and test function | properties |
| azure token caches, `auth/azure_auth.py` | two pickle files shared by all processes | load, use, fetch, save | `az`, msal |
| file handlers, `fs_handlers.py` | the user's files | copy, rename, delete, write, read, list | all pool threads at once |
| execute/names/resolve handlers, `basic_handlers.py`, `gohandler.py` | none | build config, load_def, send, test script; position lookup | all of the above |
| postman import, `postman2http.py`, `utils.py` | files it creates | walk the folders, convert, write or pick another name | file system, which other imports use too |
| har import, postman and har export, `har2httphandler.py`, `http2postman.py`, `http2har.py` | files it creates | convert a loaded definition, or into one | load_def, formatter |
| formatter, curl, request models, `request_base.py:154-510`, `computed.py` | none | show a definition, a request as a definition, a command | what is shown is loaded again |
| cursor and names, `gohandler.py`, `basic_handlers.py:339-535` | none | position to element, element to definition | target selection |
| grammar, schema classes, har classes | none | parsing, copying of fields | |

What is hard in this code:

* **Threads without locks.** The cmd server runs handlers on a pool; below it the
  session and the jar are class attributes of `RequestBase`, assigned per request.
* **Several processes, one file.** Language servers and command lines share the
  cookie jar and the token caches; each is rewritten in place (truncate, then
  write) without a lock or a rename.
* **An event loop that is not drained.** The async server runs handlers in the
  loop and never awaits its writer.
* **Loops over user data.** Bases of definitions and imports of files may be
  circular; names may be numbers and then compete with positions.
* **Order of loading.** Imports, environment, command line, contexts and scripts
  fill one set of properties; which value wins depends on the order.
* **Two commands, one directory.** File handlers and imports test, open, copy and
  remove in several system calls, on threads that do not know of each other.
* **There and back.** What was sent is shown as a definition that the user sends
  again; collections are exported and imported; each way has its own idea of what
  a content type, an empty body or a url is.
* **Partial failure that is swallowed.** Broad `except` clauses go on with half of
  the work done (contexts, cookie saving, SSL errors, a copied file's times).

What makes each component correct, in a sentence:

* servers: every line that can be answered is answered once, under the id of its
  command, before the process is gone; one hung handler does not stop the rest;
* cookies: a cookie goes where the mode of the request says and nowhere else, a
  kept cookie is found again, the jar file stays readable;
* target selection: a name means one definition, a definition inherits from all
  its ancestors and nothing else, and selection ends;
* properties: the documented precedence holds, a missing property is reported and
  never sent, and what is reported was missing where it was needed;
* token caches: a token of a scope is only used for that scope, and is kept;
* inheritance: a definition gets from what it extends what that would have been
  loaded with, and a request to AWS is signed for the host it goes to;
* conversions: what is shown, exported or imported sends the same request, but for
  the losses that can be named;
* file handlers and imports: a file holds what one write gave it, a refused command
  leaves the disk alone, an import keeps the user's files and saves every request;
* cursor and names: what an editor is told about a place selects the definition at
  that place.

## 2. Plan

In this order; the most important behaviour first.

1. `CommandService` (what any server promises) and `CmdServer`, refinement. *done*
2. `CookieSession`: the shared session. *done*
3. `AsyncCmdServer`, refinement of the same service. *done*
4. `SelectTarget`. *done*
5. `TokenCache`: the azure CLI and service principal files. *done*
6. `LoadModel`: imports and contexts, and the order in which variables and
   definitions are loaded. *done*
7. `LoadDef`: the sources of properties and the life of a request through its
   scripts. *done, but for test functions and what scripts read back*
8. `Inheritance`: every loader of `load_def`, and `Conversions`, which composes it
   with what is made of a loaded definition and loaded again. *done*
9. `FsHandlers`: file operations of several pool threads, with partial failures and
   killed processes. *done, without links*
10. `PostmanFiles`: imports that run at once into a directory, and its export. *done*
11. `TypeFromPos`: the cursor and the list of names, composed with `SelectTarget`.
    *done*
12. `SessionAdapters`: adapters mounted on the shared session for certificates.
    *left: nothing in the repository says what a later request may expect*
13. Compositions still worth having: `CmdServer` over `CookieSession`; a pool starved
    by circular bases (`CmdServer` over `SelectTarget`); sequential `CookieSession`
    as an implementation of an abstract cookie store.

Abstract specifications: `CommandService`, implemented by both servers; `Effect` of
`FsHandlers`, what a file command does when nothing runs beside it, which the
sequences of system calls are held against; a cookie store with a visible history
and a key-value cache with expiry would be next.

Worth proving next: `AloneAsSpecified` of `FsHandlers`, the one safety property of
the runs that no theorem states.

## 3. The modules

### CommandService, CmdServer (`server.py:60-70, 121-168`, `__main__.py:19-32`)

`CommandService` says what a client may rely on, whatever server it talks to. `due`
is the response that each line has coming to it, if it has one: its result or an
error under its own id (`Result`, `Failure`), or an error under id 0 for what could
not be decoded (`Anonymous`). `answers` is what the client can read, in order: the
version first, then responses that are due to lines already taken, each once, or
noise that answers no line; and the server stops only when nothing is owed. Which
responses are due is fixed at the start, so a server may not give one line's answer
under another's id, nor decide later that a line has none.

`CmdServer` has the main thread (`main`, `next`), the pool (`queue`, `at`, `job`),
and stdout as the list of responses written (`stdout`) with the prefix that has
left the process (`flushed`). `write_result` is two steps, because the write and
the flush of different threads interleave and one thread's flush moves another
thread's text. A line has a kind: what becomes of it is decided by its text and
its handler, so it is chosen once and never read by the server before the code
would know. `json.dumps` failing in a pool thread leaves the exception in a
Future nobody reads (`LoseAnswer`); failing to decode a line is answered by the
main thread (`RejectLine`). `Exit` is the interpreter waiting for the pool.

The refinement maps `answers` to the flushed prefix of `stdout`, as it is, with the
ids that are written there, and `due` to what the kind of each line deserves; hung
and unserialisable commands have nothing due.

### AsyncCmdServer (`server.py:176-233`)

One coroutine and the loop's callbacks. The callbacks (`LoopReads`, `LoopWrites`)
run only while the coroutine waits, which is the whole point: `readline` returns at
once while lines are buffered, so a busy coroutine starves the writer. At the end
of stdin `readline` returns an empty line for ever and the coroutine never waits
again; a line above the reader's limit ends the server from outside the `try`.
`OpenClientIsAnswered` therefore has its exceptions, and they are real: after a
hung or over-long line, or once the client closes stdin, answers that were ready
may stay in the transport.

It implements `CommandService` too, `answers` being what the client has read: hung
and over-long lines have nothing due, the answers to the empty lines after the end
of stdin are noise, and it never stops in an orderly way.

### CookieSession (`request_base.py:94-150, 600-735`)

Requests on the threads of several processes. A step is one access to something
shared: the class attribute `global_cookie_jar` (read twice by get_cookie, hence
`LookForJar` and `ReuseJar`), the session's cookies, the content of a jar, the
file. Saving is two steps, truncating and writing; a jar that grows while it is
written raises and leaves the first line; two savers may leave each other's
lines. Opening the file may fail, and so may the write that follows
(`FillFileFails`, `WriteJarFails`): the request goes on, and the file is left empty
or with some of its lines; `spoilt` remembers that this happened. Modes are
`no_cookie`, `@clear` and `@retry` in every combination. `Crash` kills a process
and starts it again: the file stays as it is.

`TornFileDisablesCookies` is what an empty jar file leads to: `get_cookie` cannot
load it, goes on as under `--no-cookie`, and a request without cookies saves
nothing. So the file stays as it is, and no process that starts without a jar uses
cookies again until someone removes it.

A jar is named by the request that made it and a cookie by the request that
received it, so that "whose cookie is where" can be asked of any state.

A setup says how dothttp is used: which process a request runs in, how many
threads a process has, which modes occur, how often a process may be killed and
whether the jar file may fail to open or to take what is written. It is chosen in `Init` and never changes, so that one
specification answers for a server with threads, for several processes and for
the command line; properties that need requests one after the other say so.

### SelectTarget (`parse/__init__.py:295-360`)

A file is a sequence of definitions with names and bases; names are words or
decimal numbers. `ValidateNames` is `validate_names` with both of its entries per
definition (its label and its position), `GetTarget` is `get_target`, `Extend` is
one round of the `while` loop. The test for circles compares a name with
definitions and never fires, so `Extend` has no guard for it; `MaxWalk` bounds the
rounds.

### TokenCache (`azure_auth.py`)

Requests of any number of processes with a scope and a kind: `cli` (device code
goes the same way) or `sp` (certificates too). The two files are `absent`, `torn` (opened for
writing and not yet written, or cut off) or hold a set of tokens; a token is its
scope and the time it expires. `LoadTokenCache` is the constructor, which reads the msal
file for every kind of authentication and survives only a missing file.
`UseStoredToken` and `MissStoredToken` are the two outcomes of looking into the CLI
file, `RunAz` is `az`, `AcquireForClient` is msal with the cache that was loaded,
`OpenStore` and `WriteStore` are the two halves of saving, either of which may fail
(`SaveFails`): the error reaches the user although there is a token. `Killed` ends a
request anywhere. Like `CookieSession` it has setups (at once, one after the other).

`TornStaysTorn` is the consequence worth knowing: a save that is killed between its
halves, or cannot write the second, leaves a file that no later request of that kind
gets past.

### LoadModel (`parse/__init__.py:193-277, 351-414`, `basic_handlers.py:222-261`)

What is loaded from where: the text, files it imports (which import others), and
the contexts an editor sends along. One definition and one property per source are
enough to ask who wins. A source may give the property in a `var` statement
(`VarOf`), inline as `{{x=...}}` (`InlineOf`), or both. A variable replaces what is
there (`WithVar`), in a context only if nothing is (`IfNone`); inline values are
added to what is there and two different ones are a `Conflict` (`WithInline`). They
are looked for in the text of the request and of all contexts joined, so those of a
context that does not parse count as well.
`pending` holds the imports still to be read, depth first, with the depth of
Python's recursion; `ImportFails` ends the request in the text itself and only the
context in a context; `MergeContext` with imports of its own starts all imports
again, because the code appends them to the one list it has. A context whose
variables raise is skipped with the variables before that one loaded
(`SkipContext`), and an import that raises in the same way leaves its definitions
and those variables behind.

### LoadDef (`property_util.py`, `parse/__init__.py:965-998`, `js3py.py`, `basic_handlers.py:125-161`)

One request: the occurrences of properties in its imports and then in its text are
loaded one by one (`LoadBare`, `LoadVar`, `LoadDefault`, `LoadRandom`), the init
script sets properties (`ScriptSets`, `InitDone`), the parts are filled (`FillPart`,
`MissPart`, `ConflictInPart`), the pre functions run, and the request is sent or
its errors are reported (`Send`).

A variable that uses a property, as `{{y}}` or as a bare identifier, is evaluated
when it is loaded (`CopyValue`), with what there is by then: the variables and texts
before it, the environment, and, once the imports are through (`ImportsDone`), the
command line and the property file; never what the init script sets. If the
property is missing by then, the error is remembered and the request is not sent,
whatever comes later (`MissValue`). If it is there but asking for it raises, an
identifier stands for itself and a `{{y}}` ends the request (`CopyRaises`); an
interpolated or indexed variable may raise as well (`VarRaises`). What is inside
those two is left out, and so are expressions: one that misses a property is caught
and sent as 0 (`dsl_jsonparser.py:57-72`), which no error tells of.

The value of a source outside the text is the
name of that source. `Stripped` stands for `key.strip("DOTHTTP_ENV_")`, which takes
off characters and not a prefix: it maps a property to the name the code finds for
its environment variable, and `h` in the run is a name such as HOST or TOKEN.

The properties name the exceptions that are the code's own: a part with conflicting
defaults goes out as it is written (see the findings), a mangled name is reported
missing or makes another property look available, a random default counts only if
it is the first occurrence of its property, and a variable misses what is given
after it (`MissingToVar`).

### Inheritance, Conversions (`parse/__init__.py:418-1014`, `computed.py`, `request_base.py:154-510`, `http2postman.py:63-87, 260-399`, `postman2http.py:121-368`, `har2httphandler.py:26-87`)

`Inheritance` is `load_def`: `chain` is the definition and `parents_http`, `at` the
loader that comes next, `httpdef` what has been loaded. Each loader is an action
with the rule that loader has, and they differ: `get_current_or_base` takes the
nearest (`CurrentOrBase`), headers are written over by farther definitions before
the own ones come (`LoadedHeaders`), parameters are added up, flags are or-ed, urls
are joined from the nearest outwards, the payload is never inherited. `load_auth`
has the three layouts of AWS hosts (`AwsFromHost`); a url has its host as labels so
that they can be counted from the end. `load_proxy` hands its arguments on in the
wrong order, so a definition with `http.proxy` cannot be loaded at all
(`ProxyRefused`).

`Conversions` takes a loaded definition on: it is shown (`Render`:
`get_http_from_req`, `format_http`, the parser), sent to Postman and back
(`ThroughPostman`), exported (`ExportHar`, `ExportCurl`), or comes from an import
(`ImportItem`, `ImportHar`). What comes back as text is loaded again by the same
loaders, and `origin` keeps what it was made from, so that what is *sent* before
and after can be compared (`Sent` is `get_prepared_request`). `readsFiles` tells
`RequestCompiler` from `PostManCompiler`, which opens no file.

A JSON value is the text that `json.dumps` writes for it, and `Dump` is what loading
and dumping make of a text that holds JSON; `Unquote` is `urllib.parse.unquote`,
which an import applies to query values that the export wrote as they were;
`JsonStrings` are texts that hold a JSON string, which an archive imports as the
string. `Empty` are the values Python takes for nothing, `Guess` is what magic says
of a text. `Http`, `Item` and
`HarRequest` are the types of what the grammar builds, Postman writes and browsers
write. The names of the specification start with Conv, so that it can be taken
together with `TypeFromPos`.

Two exceptions in the properties were found by proving them, since no instance had
them, and have instances now. An item of a collection with a header `Authorization`
that is empty is sent with the key or the token of its authentication: the formatter
does not write the empty line that would have come after it (`ImportsSend`). A url
that is empty and has query parameters comes back from Postman as `https://{{host}}`
(`PostmanKeeps`). What a shown definition does not tell of the request, since
`get_http_from_req` leaves it out, are timeout, retries, proxy and output; they are
named at `ShownSendsTheSame`, which compares what is sent.

### TypeFromPos (`gohandler.py`, `basic_handlers.py:339-402, 428-500`)

Extends `SelectTarget`: a layout says where the elements of a text stand, and
`FigureNGet`, `ResolvedDefinition` and `NamesListed` are functions of the layout and
of the file that `SelectTarget` has chosen. They read nothing else, so they need no
actions; the invariant asks them of every file that passes `validate_names`.

### FsHandlers (`fs_handlers.py`)

A file system shared by pool threads: `tree` maps paths to directories or files,
`data` files to bytes, so that a file that was unlinked or replaced can still be
written by who has it open. A handler is the system calls it makes, one action
each; `shutil.move` and `copytree`, which are not under `src`, are modelled from
how they are called, with the fallback to copying when a rename fails. A copy reads
and writes in pieces (`CopyPiece`) and then copies the times by name (`CopyStat`),
so `/fs/copy` can answer `FileNotFound` with the destination overwritten. `CallFails`
is a call the system refuses, for want of permission or of space: a write that stops
half way leaves what was written by then, a rename it refuses goes on by hand.
`spoiled` remembers files whose content nobody promised: writes that overlapped,
failed or were killed, and copies of what was written meanwhile. `Effect` says in one formula what each command does to a disk that
nobody else uses. `Files` is a bound of the model: a step that needs a new file
waits for one that no path and no thread has (`Room`). The names of the specification
start with FS, so that it can be taken together with `PostmanFiles`.

### PostmanFiles (`postman2http.py:54-119, 370-504`, `har2httphandler.py:90-163`, `http2postman.py:90-190`, `utils.py:100-104`)

Imports that run at once. `Walk` is one folder of `import_items`: its definitions,
the authentication they inherit (`AuthOf`), and the dictionary from file names to
contents that folders with the same cleaned name share. `Test`, `Open` and `Write`
are the three steps of saving a file; `Alternate` is the name that carries the
second. A collection is formatted before anything is saved, an archive after its
file was opened. `Exported` is the walk of the export over whatever is on the disk:
it takes names that end in `.http` or `.dhttp` (`HttpNames`), leaves out what cannot
be parsed (`Unparsable`), and needs every directory above a file to be found by a
glob that passes by hidden ones and misreads names with brackets. A notebook, and an
archive saved under another name, are imported and never exported.

## 4. The runs

| run | question | bound |
|---|---|---|
| `cmd_server` | does a hung handler cost one thread only, does the end of stdin end the server, is the service implemented (own ids, once, nothing owed) | 2 threads, 3 lines of 5 kinds: one more line than threads, so a command waits behind two busy or hung threads |
| `async_server` | order, who is answered, service | 3 lines of 6 kinds, a pipe of 1, so the backlog is used |
| `cookie_session` | is `@clear` isolated, is the jar file readable, is `--no-cookie` isolated where requests do not overlap, what a torn file means, are cookies kept, found and sent | five setups: 2 requests of all 8 modes at once, with a crash or with writes that fail, and one after the other with both; 2 processes and 3 requests with or without cookies; 3 requests in sequence, each in one mode (one receives, one disturbs, one looks). Requests of one process differ in their modes only, so each choice of modes is taken in one order |
| `retry_session` | *violated*: `@retry` leaves the session alone | 2 requests |
| `select_target` | are ancestors exactly the parents, does selection end, does the cursor select the definition it is in | files of up to 3 definitions over 2 words, numbers 0, 1 and 3 (no position, one of every file and one that some files lack); for each length two layouts, and every position in them |
| `select_circular` | *violated*: a circle is found | the same files; the shortest trace has one definition whose base is its own number |
| `token_cache` | whose token is taken, what a torn file means, what is kept one after the other | 3 requests, 2 scopes, a clock of 2 with tokens that live up to 2, so that a token expires while others wait; all at once with one killed, or one after the other; any save may fail |
| `load_model` | what is loaded, who wins, does it end | two files that import each other in any way, up to twice; or two contexts with an import each, whole or broken; with inline values, one import each or none; 3 levels of recursion, one more than two files need |
| `load_def` | what is sent, what is reported, which source counts | every text of up to 3 mentions of a property in all forms with any one outside source; every combination of sources for two properties used in one part or two; variables that use a property which up to three mentions give before or after, in an import or in the text |
| `conversions` | what is inherited, signed, shown, exported, imported | chains of up to three definitions that vary one group of attributes at a time (urls, headers, flags and scripts, payloads of every kind with and without types, authentications of every kind, AWS hosts of every layout), since the loaders are independent of one another but for the url that `load_auth` reads; two values per attribute tell nearest from farthest; one value that unquoting changes, JSON that dumping changes, and a JSON string |
| `fs_handlers` | what two commands leave on the disk | 2 threads, 3 commands out of 14 kinds and paths on a file, a directory, a file in it and a name that is free; one kill or refused call. The first command's effects (a name that is a directory now, or nothing) are there for two that overlap. Files have one or two bytes, so that a copy has two pieces, and none is empty unless it was truncated |
| `postman_files` | what imports leave and an export finds | 5 imports at once: three collections into one directory (nested folders, a name that is cleaned to nothing, a hidden folder, inherited and refused authentications, a request that cannot be formatted, one that cannot be parsed again), an archive to a name that is taken and one to a name that is not exported; a clock of 2 seconds; one fault of the disk |

Every property has a mutant of the code in `PROJECT.json` that breaks it; the
wrong variants stand before the right definitions, marked as such.

The largest are `cookie_session` (3.9 million distinct states), `load_model` (1.6
million), `load_def` (633 thousand), `postman_files` (503 thousand), `select_target`
(490 thousand) and `fs_handlers` (332 thousand); each takes two or three minutes at
most.

Deadlock is not checked where the system really stops (end of input, all requests
handled) or blocks (a hung handler).

## 5. Fairness

* `CmdServer`: the main thread and each pool thread run when they can (operating
  system threads); nothing forces the client to send or a handler to return,
  except that a handler that is not of the kind "endless" does.
* `AsyncCmdServer`: the loop runs what is ready and the client reads what it is
  sent. `LoopWrites` is weakly fair only: it is enabled only while the coroutine
  waits, so fairness does not hide the starvation.
* `SelectTarget`: sequential code goes on.
* `LoadModel`: sequential code goes on until it returns or raises; a circle of
  imports ends because Python's recursion limit is part of the model (`Depth`).
* `FsHandlers`: a thread that has a command makes its next system call (operating
  system threads; no call of a handler waits for another).
* `CookieSession`, `TokenCache`, `LoadDef`, `Conversions` and `PostmanFiles` have no
  liveness properties and no fairness.

## 6. Proofs

All for arbitrary values of the constants, under the assumption named in each
module. The assumptions say what the grammar, the operating system or the code
itself guarantees: pools and clocks are finite, ids are integers, a request has one
home process, the elements of a definition stand inside it, a folder of a collection
comes after the one it is in, what is above a path is a directory, the values that
are given in a text are none of the names used for the sources outside it.

* `CmdServer_proofs`. `IInv` is `TypeOK`, `StartInv` (nothing happened before the
  banner), `QueueInv` (the queue holds submitted lines once, in order, none of
  them with a thread), `JobInv` (no two threads hold a line, a line held is not
  written) and `StdoutInv` (each line at most once, its own id). `ExitInv` adds
  that no answerable line is lost (`NoneLost`), that unflushed text is owed by a
  thread about to flush (`FlushOwed`), and that the process leaves only when
  nothing is left (`NoWorkLeft`). From these: `AnsweredAtMostOnce`,
  `ResponsesCarryOwnId`, `NothingOwedAtExit`, and `Refinement`, that every step is
  a step of `CommandService` or a stutter. It needs `WireInv`: what has been written
  is the version and then replies, each the one its line's kind has coming
  (`Reply`), so that a flush makes readable what `Answer` allows.
* `AsyncCmdServer_proofs`. `IInv` is `TypeOK`, `RunInv` (the command that runs is the
  last line taken), `StdoutInv` (what was answered was taken before, and its handler
  is through) and the two properties proved. From these `InOrder`,
  `IdsAreOwnOrZero` and, with a `WireInv` of the same kind, `Refinement` for any
  number of lines and any pipe.
* `CookieSession_proofs`. `IInv` is `TypeOK`, `JarInv` (who can hold which jar
  where), `SessionInv` (what the shared session can hold), `OneInv` (with a pool of
  one thread the session has the jar of the request under way) and `AloneInv` (the
  cookies of a request that should have its own are in its own jar and nowhere
  else). From it `ClearIsIsolated` for any number of requests, threads, processes
  and crashes, and `NoCookieIsIsolated` for pools of one thread. `FileIsReadable`
  is inductive together with it; `TornFilesStayTorn` looks at each step from a state
  without a jar in memory and needs `IInv` only. `KeptCookiesAreSaved` and `CookiesAreSent` need
  `SeqInv` as well: how much of what was received each jar holds that the next
  request may find, from the time the request that received it saves.
* `TokenCache_proofs`. `IInv` is `TypeOK`, what a request beyond fetching has
  (`HasToken`) and why a file is torn. `TornExplained`, `OwnLiveToken` and
  `TornFileLocksOut` hold for any number of requests and crashes. `SpTokensAreKept`
  and `AzIsRunOncePerLife` are about requests one after the other: the first needs
  `AloneInv` (what a request has loaded is what the file holds), the second
  `OwnScope` and `AzInv` (a token that lives is on disk, or `az` runs because none
  does).
* `Definitions_proofs`, of what is loaded and of how it is found.
  * `Inheritance`, `Conversions`: `ConvInv` says of every moment which loaders have
    filled in what of the chain (`FilledIn`), what the chain of a definition that is
    loaded again was made from (`OriginInv`), and that a document was made of the
    request as it is (`OutputInv`). Each property is shown of that. What `load_url`
    joins and what `load_query` adds up for a chain of any length is shown to exist
    by taking the least length for which it would not (`ChainedExists`), and
    `JoinAssociates` turns a url joined from the nearest outwards into one joined to
    the url of the base (`UrlStep`). `LoadedIsDef` collects what any loaded request is
    like, whatever it was loaded from: a url that has its scheme, a signature that
    signing again does not change (`AwsAgain`). From it `SignedForTheHost`,
    `ShownIsSent`, `PostmanIsKept`, `ImportsAreSent`, `ExportsAreTrue`, and from the
    chain `BasesAreInherited`. It is assumed that `None` is none of the values, that
    magic has a type for every text and file, that dumping JSON again changes nothing
    more, and that what stands between quotes is a string, which the provers do not
    know.
  * `SelectTarget`, `TypeFromPos`: `IInv` is `TypeOK`, `WalkInv` (the parents are
    the bases of one another), `ClosedInv`, `AncestorInv` and `DescentInv` (ranks go
    down along the walk); with `ValidatedInv` for names. `MeetsNoneTwice` and
    `InheritsExactly` hold for files of any length; `NamesSelect` and
    `CursorSelects` pick the least definition of a name with the well-founded order
    of the naturals.
* `LoadModel_proofs`. `ReadyWithImports` needs `ImportInv`, that what has been loaded
  is closed under imports but for what is pending; `GoodContextsAreMerged` needs
  `MergedInv` for the contexts passed so far; `FirstDefinitionKept` follows from
  `allhttps` being appended to only. `NearestWins` needs `VarInv`:
  until the text's own variable is there the value is one that the files loaded so
  far can give in some order (`Outcomes`: their only value, or a variable that
  replaced the others, or a conflict), then the nearest of that and of the contexts
  passed (`Nearest`), and if there is none, none of those contexts offered one.
  All hold for any number of files
  and contexts and however files import each other.
* `LoadDef_proofs`. `IInv` is `TypeOK`, `FillInv` (filled parts and those left are the
  parts of the request), `LiteralInv` (a part that is left as it is has an error or
  a conflict) and `SentInv`; the key fact is `AvailableValue`: a property the check
  lets through has a value, unless its name is mistaken. `SentIsComplete`, `ReportsAreTrue` and `SourcesAreInOrder`
  need `SourceInv` as well: what the mentions read so far make of a property
  (`ScanInv`), what user and init script leave on the command line (`LineInv`), that
  a variable evaluated without a property anybody knew has left an error or raised
  (`CopyInv`), that what is reported so far was missing where it was needed, and that every part filled has
  the first source's value (`OrderInv`). All hold for any texts, imports, sources, scripts and parts.
* `Files_proofs`, of the two parts that write the user's files.
  * `PostmanFiles`: `IInv` is `TypeOK`, `FilesInv` (the user's files are as they were,
    and no import is about to open or write one), `WalkInv` (every folder passed has
    its definitions in the dictionary unless a later one of the same place took
    over, and its file waits or was saved) and `SavedInv` (a file has one turn, and
    what was saved is still on the disk unless another import claims the name). From
    it `UserFilesAreKept`, `RequestsAreSaved` and `ImportsAreExported`, for any
    number of imports of any collections and archives and any faults. What the
    recursive functions of the model give for a folder (`AuthOf`, the way up to the
    root) is shown by taking the least folder for which it would be something else.
    It is assumed that no file of the user's has a name that carries a second of the
    clock, which `get_alternate_filename` takes for granted, and that an archive is
    one folder without an authentication.
  * `FsHandlers`: `FsTyped` says that the disk is a tree at every moment (what is
    above a path is a directory, no file has two paths) and what a thread holds
    between two system calls, whatever the others do to the paths it holds.
    `WholeInv` is about every file in use, also one that no path leads to any more:
    it holds what some write was given, or is spoiled, or has a writer; and about
    every copy under way: the piece it has written is the beginning of the
    file it copies, which nobody writes (`CopyWhole`). `StepIs` sorts the steps into those that open a file to
    write, those that write it to the end, the pieces of copies, and the others,
    which move or drop values only; `CallFailsIs` sorts refused calls in the same
    way. `FsTypeCorrect`, `FsErrorsAreClean` and `FsFilesAreWhole` hold for any number
    of threads, commands, refused calls and kills.

Only model-checked:

* everything under fairness, since liveness and `ENABLED` are outside TLAPS's reach:
  `HungHandlerCostsOneThread`, `EofEndsServer`, `OpenClientIsAnswered`,
  `SelectionEnds`, `LoadEnds`, `EveryCommandIsAnswered`;
* `AloneAsSpecified`: that many system calls together do what `Effect` says of a
  whole command needs, for `rmtree` and `copytree`, an invariant about the part of
  the tree that is done.

Type correctness and the parts of larger properties (`AnsweredOnce`, `OwnId`,
`ExitOwesNothing`, `NoneTwice`, `NamesSelectTheirDefinition`, `TornOnlyBySaving`,
`IdOrZero`, `FSTypeOK`) are proved and not run any more: the runs check what they add up to.

## 7. Findings

* `CircularReferenceFound` (a bug): the test for circular bases never fires; the
  handler loops for ever and, in the server, keeps its thread. TLC's trace is the
  shortest circle, a definition whose base is its own number; two that extend each
  other do the same.
* `RetryIsThreadSafe`: the docstring's claim that `@retry` avoids changing the
  session does not hold; `session.cookies` is assigned for it as well.

Behaviour found on the way that no document contradicts, stated as exceptions in the
properties or comments of the modules: a broken import of one context stays in the
common list and takes the imports of later contexts with it (`LoadModel`); the CLI
token file holds one scope, so two scopes in turn run `az` every time (`TokenCache`);
environment variables such as DOTHTTP_ENV_TOKEN are not found (`LoadDef`).

More of that kind, each visible as an exception or a guard in a model:

* the answer to a `--no-cookie` request that runs beside another one may end up in
  the jar file (`NoCookieIsolated` is for one request at a time);
* a context with an import has the imports of the text loaded again, after the
  text's own variables and with overriding allowed (`NearestVariableWins`);
* a property with two different defaults is an error in json only; in a url, header,
  query or text body the exception ends up in a list nobody looks at and the request
  is sent with the placeholder in it (`SentIsValued`);
* an `http.proxy` argument makes a definition impossible to load, an Azure device
  code as well (`ProxyRefused`, `AuthRefused`);
* of two bases that set a header the farther one wins, of two that set a timeout the
  nearer one (`GetsWhatItsBaseHas`);
* a url that has been to Postman with query parameters loses its port and gets a
  second slash; query values are unquoted on the way back although they were not
  quoted before; empty JSON, hawk ids and Azure are lost (`PostmanKeeps`);
* a shown definition has no timeout, retries, proxy or output (`ShownSendsTheSame`);
* a write of the jar file that fails is passed over without a word and turns cookies
  off for every later process (`TornFileDisablesCookies`); one of a token file fails
  the request and locks out the later ones (`TornStaysTorn`);
* a variable that uses a property given after it is an error, though the property is
  known by the time the request would be sent (`ReportedIsMissing`);
* a context whose variables raise leaves those before in force, and inline values of
  a context that does not parse count (`NearestVariableWins`);
* notebooks are imported and never exported, a file that does not parse is left out
  of an export (`ExportFindsImports`);
* `/fs/copy` may answer `FileNotFound` with the destination overwritten
  (`ErrorsAreClean` names this exception);
* JSON in an archive that is a list is dropped (`ImportsSend`);
* `/fs/write` empties the file before it decodes the content, so that a refused
  write has emptied it (`ErrorsAreClean` names this exception);
* two imports at once may take the same name for free, or the same other name in one
  second, and one loses its requests: `EveryRequestSaved` and `ExportFindsImports`
  leave out files another import claims, so neither speaks against it; a README is always written over (`UserFilesStay`), an archive that cannot be
  formatted leaves an empty file.

## 8. Not modelled

See the components marked `not_modelled`, each with its reason: generated schema
classes and har records (they copy fields), the grammar (textX), the expression
tokenizer, argument parsing and flask's own threads. Of the formatter, curl and the
handlers' results the wording, quoting and layout are left out; of Postman imports
how names are cleaned, beyond which of them meet; of the file system links and the
descriptor-based rmtree (permissions count as calls that are refused). Of token and
jar files shared by processes, that the later of two writers wins: the code promises
nothing else, and what is kept is stated for requests one after the other
(`SpTokensKept`, `KeptCookiesSurvive`). Adapters mounted for p12 certificates
stay on the shared session and are not modelled, for want of anything the code or
its documents promise about them. Network contents are abstracted
to which cookies an answer sets and whether it comes; response bodies, headers and
TLS are left out except where a failure changes control flow.
