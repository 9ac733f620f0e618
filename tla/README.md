# A TLA+ model of the web server

This directory holds TLA+ modules for the C++ web server of this repository
(`src/src`, `src/include`), TLC configurations that check them on small
instances, and TLAPS proofs of the properties that matter most for every value
of the constants. `PROJECT.json` lists components, runs, mutants, the map from
definitions to source lines, findings, hazards and theorems.

## 1. The system

| component | state | operations | interacts with |
|---|---|---|---|
| accept loop, class `server` | `handlers_tackers` (path to handler), the acceptor | `start_accept`, `handle_accept`, `createHandler` | makes `session` objects; boost::asio calls it back |
| `session` | `data_[1024]`, `http_body`, `request_start`, `request_`, socket | `start`, `handle_read`, `handle_write`, `send_response`, `good_request`, `bad_request`, `handler_task` | global parser, handler map, dispatcher, threads |
| `RequestParser` (one global object) | state, `uri_`, `headers_`, `remaining`, ... | `Parse`, `NextCharHandler`, `Reset`, `reset` | called by every session |
| `Utils` | none | `check_request`, `check_requestLine`, `check_header`, `complete`, ... | called by session |
| handlers (echo, health, error, status, static, proxy, cache) | `StatusHandler::status`, `ProxyHandler::cached_pages`, `locationToRoot`, all static | `handleRequest` | run in a handler thread; libcurl, file system |
| `dispatcher` | none | `dispatch` | `send_response`, and `write_some` for binary bodies |
| logging | global attributes clientIp, reqPath, resCode | `setIp`, `resetIp`, ... | everyone |
| `NginxConfigParser` | brace stack, stack of open blocks, finished blocks | `Parse`, `ParseToken`, `getToken` | called by `port` |
| `port`, `main` | port number, config blocks | `checkPortNum`, `setConfigBlocks` | read the file three times, then make the server |
| `response.cc` | none | stock pages | unused by the server |

One thread runs `io_service.run()` and with it all completion handlers.
`good_request` starts a handler thread and blocks the io thread on its future;
`bad_request` starts a detached thread and goes on. The parser, the handler
map, the status list, the page cache and the logger's client address are shared
by all sessions.

What is hard here: the lifetime of session objects (bare pointers and
`delete this`), state of one request that survives into another (parser, text,
buffer), the way a request is cut into reads, exceptions that nobody catches,
a cache whose decisions are made before a transfer and applied after it, two
kinds of writes on one socket, and a config file whose three passes have to
agree with each other.
Correctness therefore means: one activity per session; an answer belongs to its
request; every request is answered once; the parser accepts its language and
touches no field that is not there; cached pages are genuine and no older than
the client allows; the bytes of answers keep their order; the server that runs
is the one the config file declares. The list `hazards` in `PROJECT.json` has
each of these at its line.

## 2. Modules

| module | models | state and actions |
|---|---|---|
| `RequestParser` | `request_parser.cc` | the parser as a record; `NextCharHandler`, `Parse`, `Reset` as operators |
| `ParserGrammar` | the parser fed lexeme by lexeme | action `Feed`; the grammar `IsRequest`, stated on positions of the finished text, without states |
| `Utils` | the checks in `utils.cc` | predicates on text |
| `Session` | `session.cc`, `server.cc`, `dispatcher.cc`, what the handlers return | see below |
| `Connection` | abstract specification | phases of a connection and the number of its answers |
| `ProxyCache` | `proxy_handler.cc`, `cached_page.cc` | page cache, one call in progress, clock, upstream |
| `ConfigParser` | `config_parser.cc` | tokens of a file; one turn of `Parse` as an operator on its locals; `Valid`, stated on positions of tokens, without a stack |
| `StaticFiles` | `static_file_handler.cc` | root of a location, file of a URI, file type, possible answers, as operators |
| `Startup` | `main.cc`, `port.cc`, constructor and `createHandler` of `server.cc`, `ProxyHandler::Init`; extends the two above | see below |
| `Dispatch` | `dispatcher.cc`, `send_response` and `handle_write` | see below |
| `MCParserGrammar`, `MCSession`, `MCProxyCache`, `MCStartup`, `MCDispatch` | small instances | lexicon, scripts, locations, headers, config files, answers |
| `RequestParserProofs`, `ParserGrammarProofs`, `SessionProofs`, `SessionRefinement`, `ProxyCacheProofs`, `ConfigParserProofs`, `StartupProofs`, `DispatchProofs` | proofs | |

Operators marked "(Faulty: ...)" are not part of the specification. Each is a
plausible mistake in the definition that follows it; with it in place TLC
violates the property that `mutants` in `PROJECT.json` names.

**Text** is a sequence of lexemes (a word, a blank, a URI, the version, a header
name with its colon, CRLF, a byte above 127), the units that parser and checks
treat alike. The parser states that only spell out one lexeme are folded. A read
therefore never ends within a lexeme. Digits are lexemes of their own: the number
of a Content-Length is put together from those of its value, over continuation
lines, as `std::stoull` reads it, and a further digit may follow the version.
Content-Length counts lexemes of the body.

**Session.** `HandleAccept`, `HandleAcceptError`, `HandleAcceptThrows` are the
outcomes of `handle_accept`. `HandleRead` is all of `handle_read`: `Classify` is
its chain of conditions, `GoodRequest` goes up to `f.get()`, `BadRequest` and
`KeepReading` are the other ends. `HandlerTask` is the handler thread,
`GoodRequestEnd` is `good_request` after `f.get()`, `BadRequestThread` the
detached thread. `DispatchThrows` and `HandlerThrows` are the exceptions that
end the process (`up`). Pending reads, writes and threads are counted, not
flagged, so that a second one would show. `Residues` is what the uninitialised
`data_` may hold, `Overruns` what `std::string(data_)` reads when a full buffer
has no NUL. A client is a script, one chunk per read, and may disconnect at any
moment. `sent`, `asked` and `logged` are history variables. A reply code 500
stands for every code but 200 that an upstream may return as well, its own 400
and 504 included: in the model 504 is the proxy's "no cached page" and 400 the
answer of `bad_request`, and `StatusCountsAnswers` and `NoSpuriousAnswer` speak of
those.

**ProxyCache.** The content of a URI is its version number; `since` records when
each version became current. `StartFetch` decides, erases and begins the
transfer; `FetchDone` delivers any version that was current since then, and
stores it with the time at which it arrived; `FetchFails` and `FetchTimesOut`
end the call with 500. A directive's value is absent, a number, something whose
last character is no digit (-1) or something `std::stoi` throws at.

**Startup.** `phase` is where `main` is: `CheckPortNum` is the first pass over the
file, `ParseTurn` a turn of `Parse` in the second, `NextToken`, `LocationHeader`
and `Skip` are the third, which gathers the headers of the blocks, `PairContents`
puts the contents that the second found to the headers by number, `Listen` and
`CreateHandler` are the constructor of `server`. What `Parse` returns is ignored,
as in the code. A write past the end of `config_blocks` and the missing return of
`createHandler` are undefined and may do nothing visible or crash. Then
`StaticRequest` serves static URIs one after another, with the entries that
`locationToRoot[prefix]` leaves behind. A file is either written from a `Layout`,
which says what the file declares and which the properties compare the result
with, or any other text. Paths are sequences of names; a text that `substr` cuts
in the middle of a word becomes `CUT`. What a layout declares is read as the
comment in `port.cc:121-130` explains it: a location `/` is around every path.

**Dispatch.** Bytes are units. `send_response` puts what the send buffer takes on
the wire at once; `WriteMore` goes on when the io thread is free, and by then the
string that `async_write` was given is gone, so the unit may be genuine or not.
`WriteContent` is a turn of the loop of `dispatch`: it holds the io thread (`io`)
until the body is written. A client reads a unit at a time, asks ahead, and may
leave at any moment; a socket whose client has gone takes everything or fails.
How requests are read and routed is in `Session`; here a client's requests are a
script of the sizes of their answers.

## 3. Runs

| run | result | shows |
|---|---|---|
| `parser_grammar` | pass | texts up to 15 lexemes: `good` exactly at the end of a text of the grammar, with its own URI |
| `session_safety` | pass | two sessions, good and rejected requests, buffer residues and overruns, disconnects; locations of `backend.conf`; the parser is fresh between two texts (`ParserFresh`) |
| `session_live` | pass | complete requests are answered, once each, in their order, and none is forgotten when the session reads on; locations of `deploy.conf` |
| `session_split` | violation | shared parser: a client is answered for another client's URI |
| `session_chunks` | violation | request line, then headers with the closing CRLF: never answered |
| `session_noroot` | violation | null handler for `/` is inserted and called |
| `session_log` | violation | wrong client address in the log |
| `cache` | pass | genuine pages, max-age, no-cache, no-store forgets, calls end |
| `cache_expiry` | violation | no default expiry |
| `startup` | pass | every file: `Parse` returns true exactly for valid ones, the port is the declared one; files like those in `conf/`: startup ends, with the declared handlers, and static URIs are served from the declared roots |
| `startup_root` | violation | a static location for `/` gives no file |
| `dispatch` | pass | two clients, small send buffer: parts of answers in order, exact when sent at once, complete before the next begins, delivered in the end |

**Bounds.** Two sessions are enough for one client to disturb another through
each shared object; the proofs cover any number. `MaxLength` is 11
lexemes in `session_safety`, where a request fills the buffer exactly and a
script of line ends exceeds it, and 13 elsewhere, more than any chunk.
`MaxInput` 15 fits a request with a second digit of the version, Content-Length,
a continuation line that goes on with its number, and a body of two, or one with
two headers; the digits are 0 and 2 and `ULLONG_MAX` is scaled down to 9, so that
"02" is a number, "20" and "22" are too large, and both happen.
`ShortParts` keeps method, target and values (two lexemes) short, where one lexeme
is as good as another. The clock runs to 6 with a timeout of 1 and a "minute" of 2: longer
than a page's minute plus a max-age plus a transfer; two versions suffice for a
page to be outdated. `CHECK_DEADLOCK FALSE` is set because clients stop sending,
the process may exit, and the clock is bounded.

`startup` takes every sequence of up to `MaxLocations` = 3 of six locations (two
nested static ones, an error handler for `/` as in `deploy.conf`, a proxy, an echo,
a second one for the same path) on a port below and one above 32767, every text of `MaxPieces` = 4
pieces (word, `;`, braces, comment, quote) behind a port, and some twenty files
that the passes read differently: three locations are what it takes for a header
to be between two others, four pieces for a block in a block. `IntMax` is scaled
down to 99999; only that it is at least 65535 matters. `dispatch` has a buffer of
`Capacity` = 3 units and sends of `MaxTransfer` = 2 (asio sends at most 64 KiB at
a time): there are answers that fit, that are cut, that meet a full buffer, and a
body larger than the buffer. With these bounds the body does overtake the headers
and freed memory is sent; `FittingAnswersAreExact` says exactly when not.

**Scripts and layouts.** `RequestIsolation` holds in `session_safety`, where every text that
reaches the parser ends in a decisive result, and fails in `session_split`, where
one does not: that is the exact condition under which the global parser is
harmless. `ServedFromItsRoot` holds in `startup` and fails in `startup_root`, whose file has
the static location for `/` that the other leaves out (`NoTrailingSlash`, the
hypothesis of `RootsDeclared`; that the layouts of `startup` satisfy it is the
assumption `RootsCanBeFound`). `EveryRequestAnswered` holds for the shapes in `Complete` (one chunk,
with a body, line by line, one after another) and fails for `TwoChunks`. These
shapes are those of `OrderlyClients`, the hypothesis of five theorems; that
`Complete` satisfies it is the assumption `CompleteIsOrderly`, which TLC
evaluates. In `session_live` the uninitialised buffer holds something that the
first chunk covers.

**Fairness.** asio runs completions in the order they become due, so a handler
that is due again and again is not passed over: strong fairness of `IoThread(s)`
(it is disabled whenever the io thread waits for another session). Started
threads run: weak fairness. Nothing is assumed of clients, accepts or
disconnects. In the cache the clock ticks and libcurl keeps `CURLOPT_TIMEOUT`;
the upstream may never answer. `main` is one thread that nothing makes wait: weak
fairness of its steps. In `Dispatch` the steps of a session's server side and of
its client's reading are weakly fair: the io thread and the reject threads run,
and a client reads what is there or leaves. The last is an assumption about
clients and not about the code: a client that neither reads a large binary answer
nor leaves holds up all others for ever.

## 4. Proofs

All theorems hold for arbitrary constants that satisfy the named assumptions
(`DigitsAssumption`, `MaxAssumption`, `NumbersAssumption`, `LexemesAssumption`, `ConfigAssumption`, `TextAssumption`,
`SessionsAssumption`, `MaxLengthAssumption`, `HeadersAssumption`,
`TimesAssumption`, `BoundsAssumption`, `NothingAssumption`, `WordsAssumption`,
`FilesAssumption`, `LayoutsAssumption`, `OthersAssumption`, `KeywordsAssumption`,
`UrisAssumption`, `DispatchAssumption`); TLC evaluates them in the runs of their
modules. Those of `Startup` say how words are told apart: the keywords and the
handlers' names are words, `root` has no slash in it, `location` is no number, and
different path words have different names; a layout's port is in 1..65535.

* **Parser** (`ParserTyped`, `ParserNeverStuck`, `ParserMatchesGrammar`,
  `DecidedParseLeavesFresh`). Type and `WellFormed` have to be proved together:
  decrementing the counter keeps its type only where it is positive, and
  appending to the last header only where there is one. `RequestParserProofs`
  shows it for one character (`NextCharSound`) and, by induction on the prefix
  length, for a whole `Parse` (`ParseParsed`); the same induction shows that a
  `Parse` with a decisive result leaves the parser as `Reset` makes it.

  `ParserMatchesGrammar` is for every lexicon and every text of any length: the
  result is `good` exactly where the text is a request of the grammar, and the
  URI is the one between its first two blanks. `ParseMatchesGrammar` is not
  inductive, since it says nothing while the result is undefined. Its invariant
  `Agrees` adds `Describes`: for each state of the machine, which part of a
  request the text so far is, at which positions its method, URI and header
  section lie, that no blank line has gone by, and what `uri_`, `headers_` and
  `remaining` hold of it. One lexeme more (`Longer`) then moves a text from one
  description to the next. Two places are hard. The value of Content-Length may
  go on over continuation lines, so the invariant says that the last header's
  value is the lexemes at `ValuePlaces` of its line so far, in order
  (`Selected`), line ends and indentation left out; and when the blank line
  comes, the number the parser takes (from the first header of that name) must
  be the one the grammar announces (from the first such line): the least
  elements of two sets of positions that grow side by side. `LexemesAssumption`
  says that the name Content-Length is no token, as a lexeme that stands for a
  name with its colon cannot be.
* **Session** (`SessionTyped`, `SharedParserSafe`, `SessionsOwned`,
  `FutureIsOwn`, `NothingLeftOver`, `StatusIsExact`, `IsolationFromFreshParser`).
  `SessionOwnership` alone is not inductive: the accepting session must be the
  one `acceptor` names and no other, the session the io thread waits for must be
  open, and its buffer of text and future must fit; `IInv` adds `Accepting`,
  `WaiterReady` and the typing with the parser's `WellFormed`. `NoNullCall` is
  conditional: with a location for `/` no null handler is ever called. Its
  invariant is that no entry is null and that the key of the handler thread has
  an entry; without `/` the run `session_noroot` shows the call.

  `StatusIsExact`: the list that the status page shows has, in every state, one
  record for every answer of a handler that keeps records and for the one that
  is between its handler thread and its write, and no more. Sums over the
  sequences of answers are counted by the positions that hold one
  (`RecordedAnswers`), so a step adds at most one element to a finite set.

  `IsolationFromFreshParser` says when the global parser is harmless: if it is
  fresh after every `handle_read`, then no client is answered for a URI that is
  not its own, whatever the sessions, the interleaving and the scripts.
  `ParserFresh` is a hypothesis because it depends on the clients; TLC checks it
  in `session_safety`, and `session_split` shows what happens without it.
  `DecidedParseLeavesFresh` is the other half: only a text that `Parse` leaves
  undecided can break it.
* **Orderly clients** (`ParserStaysFresh`, `OrderlyRequestsIsolated`,
  `AnswersAreInOrder`, `NoAnswerIsSpurious`, `NothingIsForgotten`, in
  `SessionProofs`). These do not hold for all clients, as `session_split` and
  `session_chunks` show, so each has the hypothesis `OrderlyClients`: every
  script sends a request at once, or its request line, its headers and the
  closing CRLF chunk by chunk; each chunk is shorter than the buffer; and the
  first one is at least as long as what an uninitialised `data_` holds. The first
  condition is what `handle_read` is written for, the other two are where the
  buffer would add bytes to a chunk that the client did not send. Nothing is
  said of the number of clients or requests, of the order in which chunks
  of different clients arrive, of disconnects or of locations.

  The properties compare the session, which sees chunks, with `Summary`, which
  sees only the text that all chunks make and cuts it where a parser of its own
  would. The argument has two halves. No request is the beginning of another
  (`OneRequestUnique`), so the places where requests end are determined by the
  text. And what `Classify` says of a chunk of an orderly client is right
  (`OrderlyVerdict`): it takes the chunk for the end of a request exactly when
  the text gathered so far, with this chunk, is one. None of the five properties
  is inductive. `OInv` adds for each session where it stands in the script
  (`InPlace`: so many chunks are read, `http_body` is what `Gathered` has there,
  and as many answers are sent or due as requests have ended by then, each with
  the URI of its request), that the next chunk overwrites all that its buffer
  holds (`Fits`), and that a read belongs to an open session that is not being
  served (`Reading`). `ParserFresh` is part of it: an answer is
  about its own URI only if the parser was fresh before, and the parser is fresh
  afterwards because an orderly text is decided at its end.
* **Refinement** (`SessionImplementsConnection`). Under
  `phase <- PhaseOf, answers <- Len(sent)` every action is a step of `Connection`
  or a stutter. It uses `IInv`: that a completed read leaves no other activity is
  what makes `PhaseOf` change as `Connection` allows.
* **Cache** (`CacheTyped`, `CachedPagesAreGenuine`, `MaxAgeBoundsStaleness`,
  `NoCacheIsCurrent`, `NoStoreIsForgotten`). The strengthening is `History` (the
  upstream's times are ordered and not in the future), `Transfer` (a transfer
  began at most a timeout ago and `oldest` was current then), `Answers`, and
  `Forgotten` (while a no-store request is with the upstream there is no page of
  its URI). A page inherits the bound of its transfer, an answer from the cache
  that of its page. `NoStoreForgets` allows what the code does after a no-store
  request whose page was there: the new answer is stored again.

* **Startup** (`Typing`, `ParseDecides`, `StacksAgree`, `PortIsDeclared`,
  `NoTrace`, `HandlersDeclared`, `RootsDeclared`). `ConfigParserProofs` shows for
  one turn of `Parse` that it keeps `ParseInv`: everything read so far is fine
  by the definition on positions, both stacks are as high as the depth of braces
  there, there are as many finished blocks as closing braces, and
  `last_token_type` is the type of the last token that is no comment. A turn
  that returns then has found the first place that is not fine, or the end at
  depth zero, so the result agrees with `Valid`. `PortIsDeclared` is arithmetic
  on the conversions int, short, unsigned short. `NoTrace` shows that an empty
  entry and no entry are the same to `replace_path`. That the tokenizer gives a
  sequence of tokens for every text is `TokensType`.

  `HandlersDeclared` and `RootsDeclared` are for every layout, with any number of
  locations in any order: the server that comes to listen has the handlers that
  the file declares, and a static request is mapped to the file under the root of
  the innermost declared location around it, if no static location ends in a
  slash (`NoTrailingSlash`; `startup_root` shows the case of `/`). Neither is inductive; `LayoutInv` is.
  It has three parts. First, the tokens of a file that `FileOf` writes are known
  position by position: the port, then each header and block at its place.
  Second, `Progress` says for each value of `phase` where its pass is in
  them and what it has gathered so far: `Parsing` the contents of
  the blocks whose closing brace has gone by, `Heading` the headers, so that the
  two agree when `PairContents` puts them together by number. Third,
  `HandlersMade` and `RootsMade` say what the constructor has made of the first
  m blocks, where of two locations with one path the later one counts. The last
  step (`RootsFinished`) turns the code's search from the longest prefix to the
  shortest into the innermost location of the declaration: both are the greatest
  of the same set of levels. `Progress` was checked with TLC on the layouts of
  the run before it was proved.
* **Dispatch** (`DispatchTyped`, `StreamsAreInOrder`, `FittingIsExact`,
  `AnswersAreComplete`).
  `StreamsInOrder` is not inductive: the invariant adds which units are on the
  wire (exactly the first `sent` of the current response, the first `written` of
  the current content, and all of the answers before it) and that a
  session that reads or is deleted has no write going on, and one that reads has
  nothing of its last answer outstanding. A unit that is added is then new, and
  all before it are there. That the next answer cannot begin before a body is
  complete follows from `io`: `handle_write` runs only when the loop of
  `dispatch` has ended. `AnswersAreComplete` counts: the invariant makes the
  places of an answer's units on the wire and the units themselves correspond one
  to one (`PartCounted`, `AnswerCounted`), so there are as many as the answer is
  long. It does not say that the units are genuine or that body and headers are
  not mixed; `FittingAnswersAreExact` says when.

Only model-checked: liveness (`EveryRequestAnswered`, `CallEnds`, `StartupEnds`,
`AnswersDelivered`), which needs fairness and `ENABLED`. Every other property of a
passing run is stated by a theorem; `NothingIsForgotten` and `AnswersAreComplete`
are the parts of the first and the last that are about safety. `NoNullHandler` is
proved for configurations with a location for `/`, `ServedFromItsRoot` for layouts
without a static location that ends in a slash, and `ParserFresh`,
`NoSpuriousAnswer`, `AnswersInOrder` and `NothingForgotten` for orderly clients.
`session_safety` checks `ParserFresh` and `RequestIsolation` for others too:
rejected requests, residues and full buffers.

Induction over data has no library theorem the provers can apply. Where it is
needed (a whole `Parse`, the tokens of a text, a sum over a sequence, the ends of
requests) the proofs use a set of numbers instead of a predicate: `SetInduction`
says that a set with 0 that is closed under successor has all naturals, and a
recursive function on `0..n` equals its defining expression because some
function does (shown by the same induction).

What the models show beyond their properties: a file that `Parse` finds valid may
still hang startup (`location "/a" StaticHandler {}` at the end of the file:
the loop that waits for a semicolon never sees one) or write past the end of
`config_blocks` (a nested block, or a block that is no location). A last word
that the end of the file cuts off counts as the end, so `port 80; x` is valid.
An only-if-cached request whose max-age excludes the page that is there goes to
the upstream: `cache_control` consults that directive only when there is no page
(`proxy_handler.cc:360-366`, against "return only the cached version" at line 25).
And a no-store request with a page leaves a new page behind.

## 5. Not modelled, and why

* `checkFilePath` and `setFilePath` of `port`: their call in `main` is commented
  out.
* `response.cc`: the server does not use it.
* What is in a file, in a page or in an echoed request; the rewriting of HTML and
  headers in the proxy (`parse_html_body` and the libcurl callbacks), `url_decode`,
  status lines and other formatting, `TokenTypeAsString`: text that no property
  tells apart. The fixed Content-Length of the index page (37 for 36 characters)
  is not seen for the same reason.
* Characters within a lexeme or word. A read never ends within a lexeme, and a
  config file's words are taken whole.
* `min-fresh`: the code is modelled, but nothing says what it should mean, so
  `StalenessBounded` leaves such requests out.
* Sinks, formats and the path and code attributes of the log.

## 6. What could follow

* A refinement of the write in `Session` by `Dispatch`: today they share the
  names and the order of `send_response`, `handle_write` and the loop of
  `dispatch`, and are checked apart.
* `Startup` composed with `Session`, so that `Config` is what `Startup` arrives
  at instead of a constant.
