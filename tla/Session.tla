------------------------------ MODULE Session ------------------------------
(***************************************************************************)
(* class session and the accept loop of class server (src/src/session.cc,  *)
(* src/src/server.cc): what happens to a connection from accept to delete. *)
(*                                                                         *)
(* One thread runs io_service.run() and with it every completion handler,  *)
(* one at a time.  good_request starts a handler thread and blocks the io  *)
(* thread on its future; bad_request starts a thread that sends the answer *)
(* and is not waited for.  Asynchronous operations are counted, not merely *)
(* flagged, so that a second one on the same socket would show.            *)
(*                                                                         *)
(* The request parser is one global object for all sessions.               *)
(***************************************************************************)
EXTENDS Utils, FiniteSets

CONSTANTS
    Sessions,     \* the session objects of a run; bounds the connections
    NoSession,    \* no session
    Scripts,      \* what a client may send: a sequence of chunks, one per read
    Config,       \* the location blocks: a path to a handler's type
    SegmentsOf,   \* a URI of Paths to its segments: "/a/b" is <<"a", "b">>
    MaxLength,    \* max_length, in lexemes
    Residues,     \* what the uninitialised data_ of a new session may hold
    Overruns      \* what follows data_ in memory up to a NUL

ROOT == <<"">>
HTTP == <<"http">>
FUSED == "fused"  \* a segment that ran together with text after it

Keys == DOMAIN Config \cup {ROOT}

HandlerTypes == {"StaticHandler", "EchoHandler", "StatusHandler", "ErrorHandler",
                 "HealthHandler", "ProxyHandler", "CacheHandler"}

ASSUME SessionsAssumption == NoSession \notin Sessions

ASSUME ConfigAssumption ==
    /\ Config \in [DOMAIN Config -> HandlerTypes]
    /\ SegmentsOf \in [Paths -> Seq(STRING)]

ASSUME TextAssumption ==
    /\ Scripts \subseteq Seq(Text \ {<<>>})
    /\ Residues \subseteq {r \in Text : Len(r) <= MaxLength}
    /\ Overruns \subseteq Text

ASSUME MaxLengthAssumption == MaxLength \in Nat \ {0}

VARIABLES
    up,                \* "running", "exited" (exception), "crashed" (null call)
    \* shared objects
    req_parser,        \* the global RequestParser
    handlers_tackers,  \* server::handlers_tackers: key to handler, NULL or ABSENT
    status,            \* number of records in StatusHandler::status
    clientIp,          \* the logger's client address: whose, or NoSession
    \* threads
    acceptor,          \* the session async_accept waits with
    io,                \* the session whose future the io thread waits for
    task,              \* the handler thread's arguments
    future,            \* the handler thread's answer
    \* per session: lifetime and outstanding operations
    life,              \* "unborn", "accepting", "open", "deleted"
    reads,             \* async_read_some operations pending
    writes,            \* async_write operations pending
    workers,           \* bad_request threads not yet done
    \* per session: fields of the object
    request_start, http_body, data_,
    request_,          \* request_.uri_
    \* per session: the client
    inq,               \* chunks not read yet
    conn,              \* "up" or "gone"
    \* history: what the properties talk about and the program does not keep
    asked,             \* the script of a session's client
    sent,              \* the answers to a session's client, in order
    logged             \* the last request line in the log

objects == <<request_start, http_body, data_, request_>>
pending == <<reads, writes, workers>>
threads == <<io, task, future>>
shared  == <<req_parser, handlers_tackers, status>>
client  == <<inq, conn, asked>>
answers == <<sent, logged>>
vars    == <<up, shared, clientIp, acceptor, threads, life, pending, objects, client, answers>>

NoReply == [code |-> 0, binary |-> FALSE]
NoTask  == [session |-> NoSession, found |-> FALSE, key |-> ROOT]

\* The io thread is in its loop, free to run a completion handler.
InLoop == up = "running" /\ io = NoSession

-----------------------------------------------------------------------------
(* Routing (good_request): the longest prefix of the path that is a key.   *)

Known(h, key) == key \in DOMAIN h /\ h[key] # "ABSENT"

\* A path goes on with another path's segments; a word runs into the last one.
Extend(path, c) ==
    IF c \in Paths THEN path \o SegmentsOf[c]
                   ELSE SubSeq(path, 1, Len(path) - 1) \o <<FUSED>>

\* The segments after each prefix of a URI text, and after all of it.
PathsOf(uri) ==
    LET path[i \in 0..Len(uri)] == IF i = 0 THEN <<>> ELSE Extend(path[i - 1], uri[i])
    IN  path

PathOf(uri) == PathsOf(uri)[Len(uri)]

\* (Faulty: without a match the path itself is left as the key.)
RouteKeepingPath(h, uri) ==
    LET path == PathOf(uri)
        hits == {k \in 1..Len(path) : Known(h, SubSeq(path, 1, k))}
    IN  [found |-> hits # {}, key |-> path]

Route(h, uri) ==
    LET path == PathOf(uri)
        hits == {k \in 1..Len(path) : Known(h, SubSeq(path, 1, k))}
        longest == CHOOSE k \in hits : \A j \in hits : j <= k
    IN  IF uri # <<>> /\ uri[1] \in Urls /\ Known(h, HTTP)
        THEN [found |-> TRUE, key |-> HTTP]
        ELSE IF uri # <<>> /\ uri[1] \in Paths /\ hits # {}
             THEN [found |-> TRUE, key |-> SubSeq(path, 1, longest)]
             ELSE [found |-> FALSE, key |-> ROOT]

\* What handleRequest may return; a binary answer (src_type >= 2) is written
\* by the dispatcher itself.  The proxy passes on any code that the upstream
\* answers: all but 200, a 400 or a 504 of the upstream included, are 500 here,
\* so that 504 stands for the proxy's own "no cached page" and 400 for the
\* answer of bad_request.
Replies(h) ==
    {r \in [code : {200, 404, 500, 504}, binary : BOOLEAN] :
        \/ /\ h = "StaticHandler"
           /\ r.code \in {200, 404} /\ (r.binary => r.code = 200)
        \/ /\ h = "ErrorHandler"
           /\ r.code = 404 /\ ~r.binary
        \/ /\ h \in {"ProxyHandler", "CacheHandler"}
           /\ r.code \in {200, 500, 504} /\ ~r.binary
        \/ /\ h \in {"EchoHandler", "StatusHandler", "HealthHandler"}
           /\ r.code = 200 /\ ~r.binary}

\* (Faulty: an error leaves no record.)
RecordsSuccess(reply) == IF reply.code = 200 THEN 1 ELSE 0

\* Every reply leaves a record, except the proxy's "no cached page" (504).
Records(reply) == IF reply.code = 504 THEN 0 ELSE 1

-----------------------------------------------------------------------------
(* What a client sends, seen as a whole: used by the history variables.    *)

\* The URI in a request's own text, as a parser of its own would read it.
OwnUri(body) == Parse(FreshParser, <<>>, body).uri

IsOneRequest(text) ==
    /\ Parse(FreshParser, <<>>, text).result = "good"
    /\ Parse(FreshParser, <<>>, SubSeq(text, 1, Len(text) - 1)).result = "undefined"

\* The text of a script's first i chunks
Joined(script) ==
    LET joined[i \in 0..Len(script)] == IF i = 0 THEN <<>> ELSE joined[i - 1] \o script[i]
    IN  joined

\* Where a request that begins after `from' ends: at no more than one place.
NextEnd(text, from) ==
    LET ends == {j \in (from + 1)..Len(text) : IsOneRequest(SubSeq(text, from + 1, j))}
    IN  IF ends = {} THEN Len(text) + 1 ELSE CHOOSE j \in ends : TRUE

\* Where the k-th request of a text ends; beyond the text if there is none.
RequestEnds(text) ==
    LET ends[k \in 0..Len(text)] ==
            IF k = 0 THEN 0 ELSE CHOOSE j \in {NextEnd(text, i) : i \in {ends[k - 1]}} : TRUE
    IN  ends

\* A text whose requests end there.  wellformed: it is requests one after the
\* other and nothing else; uris: what each of the requests is for.
CutAt(text, ends) ==
    LET places == {k \in 1..Len(text) : ends[k] <= Len(text)}
    IN  [wellformed |-> \E k \in 0..Len(text) : ends[k] = Len(text),
         requests   |-> Cardinality(places),
         uris       |-> [k \in places |-> OwnUri(SubSeq(text, ends[k - 1] + 1, ends[k]))]]

\* What a client asks for: the chunks of its script, put together and cut again
Summary(script) ==
    LET text == Joined(script)[Len(script)] IN CutAt(text, RequestEnds(text))

Nothing == <<>>

Summaries == [script \in Scripts \cup {Nothing} |-> Summary(script)]

-----------------------------------------------------------------------------

\* (Faulty: createHandler has no branch for one of the types.)
HandlersWithoutCache ==
    [k \in Keys |-> IF k \notin DOMAIN Config THEN "ABSENT"
                    ELSE IF Config[k] = "CacheHandler" THEN "NULL" ELSE Config[k]]

\* The constructor of server makes a handler for each location.
Handlers == [k \in Keys |-> IF k \in DOMAIN Config THEN Config[k] ELSE "ABSENT"]

Init ==
    /\ up = "running"
    /\ req_parser = FreshParser
    /\ handlers_tackers = Handlers
    /\ status = 0
    /\ clientIp = NoSession
    /\ acceptor \in Sessions                \* main has called start_accept
    /\ io = NoSession
    /\ task = NoTask
    /\ future = NoReply
    /\ life = [s \in Sessions |-> IF s = acceptor THEN "accepting" ELSE "unborn"]
    /\ reads = [s \in Sessions |-> 0]
    /\ writes = [s \in Sessions |-> 0]
    /\ workers = [s \in Sessions |-> 0]
    /\ request_start = [s \in Sessions |-> FALSE]
    /\ http_body = [s \in Sessions |-> <<>>]
    /\ data_ = [s \in Sessions |-> <<>>]
    /\ request_ = [s \in Sessions |-> <<>>]
    /\ inq = [s \in Sessions |-> <<>>]
    /\ conn = [s \in Sessions |-> "up"]
    /\ asked = [s \in Sessions |-> Nothing]
    /\ sent = [s \in Sessions |-> <<>>]
    /\ logged = [about |-> NoSession, ip |-> NoSession]

-----------------------------------------------------------------------------
(* Accepting                                                               *)

\* start_accept, given the sessions as they stand; ends when Sessions is used up.
StartAccept(alive) ==
    \/ \E t \in Sessions :
          /\ alive[t] = "unborn"
          /\ acceptor' = t
          /\ life' = [alive EXCEPT ![t] = "accepting"]
    \/ /\ \A t \in Sessions : alive[t] # "unborn"
       /\ acceptor' = NoSession
       /\ life' = alive

\* handle_accept without error: note the address for the log, start the first
\* read into the buffer the constructor left uninitialised.
HandleAccept(s) ==
    /\ InLoop /\ acceptor = s
    /\ \E script \in Scripts, residue \in Residues :
          /\ inq' = [inq EXCEPT ![s] = script]
          /\ asked' = [asked EXCEPT ![s] = script]
          /\ data_' = [data_ EXCEPT ![s] = residue]
    /\ clientIp' = s
    /\ reads' = [reads EXCEPT ![s] = @ + 1]
    /\ StartAccept([life EXCEPT ![s] = "open"])
    /\ UNCHANGED <<up, shared, threads, writes, workers, request_start, http_body,
                   request_, conn, answers>>

\* (Faulty: an early return without start_accept.)
HandleAcceptErrorReturns(s) ==
    /\ InLoop /\ acceptor = s
    /\ clientIp' = NoSession
    /\ acceptor' = NoSession
    /\ life' = [life EXCEPT ![s] = "deleted"]
    /\ UNCHANGED <<up, shared, threads, pending, objects, client, answers>>

\* handle_accept with an error
HandleAcceptError(s) ==
    /\ InLoop /\ acceptor = s
    /\ clientIp' = NoSession
    /\ StartAccept([life EXCEPT ![s] = "deleted"])
    /\ UNCHANGED <<up, shared, threads, pending, objects, client, answers>>

\* The peer is gone already: remote_endpoint throws, and nothing catches the
\* exception before main does.
HandleAcceptThrows(s) ==
    /\ InLoop /\ acceptor = s
    /\ up' = "exited"
    /\ UNCHANGED <<shared, clientIp, acceptor, threads, life, pending, objects, client,
                   answers>>

-----------------------------------------------------------------------------
(* Reading                                                                 *)

\* At most MaxLength lexemes of the next chunk, and what that leaves.
Chunk(s) ==
    LET c == Head(inq[s]) IN IF Len(c) <= MaxLength THEN c ELSE SubSeq(c, 1, MaxLength)

AfterChunk(s) ==
    LET c == Head(inq[s])
    IN  IF Len(c) <= MaxLength THEN Tail(inq[s])
        ELSE <<SubSeq(c, MaxLength + 1, Len(c))>> \o Tail(inq[s])

\* A read overwrites the front of data_; what was behind it stays.
Buffer(s) == Chunk(s) \o SubSeq(data_[s], Len(Chunk(s)) + 1, Len(data_[s]))

\* std::string request(data_) runs to a NUL, which a full buffer does not have.
Received(s) ==
    IF Len(Buffer(s)) < MaxLength THEN {Buffer(s)} ELSE {Buffer(s) \o o : o \in Overruns}

\* (Faulty: a request in one chunk is not recognised.)
ClassifyByLine(started, request, bytes) ==
    IF started /\ complete(request, bytes) THEN "end"
    ELSE IF check_requestLine(request)
         THEN IF check_method(request[1]) THEN "line" ELSE "bad method"
    ELSE IF started
         THEN IF check_header(request) THEN "header" ELSE "bad header"
    ELSE IF filter_CRLF(request) = <<>> THEN "blank" ELSE "garbage"

\* (Faulty: a chunk of line ends only is skipped before anything else.)
ClassifyBlankFirst(started, request, bytes) ==
    IF filter_CRLF(request) = <<>> THEN "blank"
    ELSE IF ~started /\ check_request(request) THEN "whole"
    ELSE IF check_requestLine(request)
         THEN IF check_method(request[1]) THEN "line" ELSE "bad method"
    ELSE IF started
         THEN IF check_header(request) THEN "header" ELSE "bad header"
    ELSE "garbage"

\* The decisions of handle_read and long_string_handler on a chunk, in order.
Classify(started, request, bytes) ==
    IF ~started /\ ~complete(request, bytes) /\ check_request(request) THEN "whole"
    ELSE IF started /\ complete(request, bytes) THEN "end"
    ELSE IF check_requestLine(request)
         THEN IF check_method(request[1]) THEN "line" ELSE "bad method"
    ELSE IF started
         THEN IF check_header(request) THEN "header" ELSE "bad header"
    ELSE IF filter_CRLF(request) = <<>> THEN "blank" ELSE "garbage"

\* Clients that the server is made for: they send a request at once, or its lines
\* one by one, less than a buffer at a time.  What is gathered after each chunk:
EndsRequest(gathered, chunk) ==
    IF gathered = <<>> THEN check_request(chunk) ELSE chunk = <<CRLF>>

Gathered(script) ==
    LET text[i \in 0..Len(script)] ==
            IF i = 0 THEN <<>>
            ELSE IF EndsRequest(text[i - 1], script[i]) THEN <<>> ELSE text[i - 1] \o script[i]
    IN  text

Orderly(script) ==
    /\ Gathered(script)[Len(script)] = <<>>
    /\ \A i \in 1..Len(script) :
          LET before == Gathered(script)[i - 1]
          IN  /\ Len(script[i]) < MaxLength
              /\ IF EndsRequest(before, script[i]) THEN IsOneRequest(before \o script[i])
                 ELSE IF before = <<>>
                      THEN check_requestLine(script[i]) /\ check_method(script[i][1])
                      ELSE check_header(script[i])

\* All clients are orderly, and the first chunk of each covers what an
\* uninitialised data_ holds.
OrderlyClients ==
    \A script \in Scripts :
        /\ Orderly(script)
        /\ script # <<>> => \A residue \in Residues : Len(residue) <= Len(script[1])

\* The read that completed is no longer pending; handle_write starts the next.
ReadDone(s)  == [reads EXCEPT ![s] = @ - 1]
ReadAgain(s) == [ReadDone(s) EXCEPT ![s] = @ + 1]

\* good_request up to f.get(): parse with the shared parser, look the handler
\* up, start its thread and wait.
GoodRequest(s, body) ==
    /\ \E parsed \in {Parse(req_parser, request_[s], body)} :
          LET route == Route(handlers_tackers, parsed.uri)
          IN  /\ req_parser' = parsed.parser
              /\ request_' = [request_ EXCEPT ![s] = parsed.uri]
              /\ task' = [session |-> s, found |-> route.found, key |-> route.key]
    /\ http_body' = [http_body EXCEPT ![s] = body]
    /\ io' = s
    /\ reads' = ReadDone(s)
    /\ UNCHANGED <<handlers_tackers, status, future, writes, workers, answers>>

\* (Faulty: the next read is started without waiting for the answer.)
BadRequestReadingOn(s, body) ==
    /\ req_parser' = Parse(req_parser, request_[s], body).parser
    /\ logged' = [about |-> s, ip |-> clientIp]
    /\ workers' = [workers EXCEPT ![s] = @ + 1]
    /\ http_body' = [http_body EXCEPT ![s] = <<>>]
    /\ request_' = [request_ EXCEPT ![s] = <<>>]
    /\ reads' = ReadAgain(s)
    /\ UNCHANGED <<handlers_tackers, status, threads, writes, sent>>

\* (Faulty: the text is not forgotten.)
BadRequestKeepingText(s, body) ==
    /\ req_parser' = Parse(req_parser, request_[s], body).parser
    /\ logged' = [about |-> s, ip |-> clientIp]
    /\ workers' = [workers EXCEPT ![s] = @ + 1]
    /\ http_body' = [http_body EXCEPT ![s] = body]
    /\ request_' = [request_ EXCEPT ![s] = <<>>]
    /\ reads' = ReadDone(s)
    /\ UNCHANGED <<handlers_tackers, status, threads, writes, sent>>

\* bad_request: parse for the log's sake, log, start the answering thread, and
\* forget the text and the request.
BadRequest(s, body) ==
    /\ req_parser' = Parse(req_parser, request_[s], body).parser
    /\ logged' = [about |-> s, ip |-> clientIp]
    /\ workers' = [workers EXCEPT ![s] = @ + 1]
    /\ http_body' = [http_body EXCEPT ![s] = <<>>]
    /\ request_' = [request_ EXCEPT ![s] = <<>>]
    /\ reads' = ReadDone(s)
    /\ UNCHANGED <<handlers_tackers, status, threads, writes, sent>>

\* (Faulty: no further read is started.)
KeepReadingNot(s, body) ==
    /\ http_body' = [http_body EXCEPT ![s] = body]
    /\ reads' = ReadDone(s)
    /\ UNCHANGED <<request_, shared, threads, writes, workers, answers>>

\* The text is kept, and the next read started.
KeepReading(s, body) ==
    /\ http_body' = [http_body EXCEPT ![s] = body]
    /\ reads' = ReadAgain(s)
    /\ UNCHANGED <<request_, shared, threads, writes, workers, answers>>

\* handle_read without error.  data_ is cleared after a line or a header that
\* is kept, not after a blank chunk; an answer clears it in send_response.
HandleRead(s) ==
    /\ InLoop /\ reads[s] > 0 /\ inq[s] # <<>>
    /\ inq' = [inq EXCEPT ![s] = AfterChunk(s)]
    /\ \E request \in Received(s) :
       \E verdict \in {Classify(request_start[s], request, Len(Chunk(s)))} :
       \E body \in {http_body[s] \o request} :
          \/ /\ verdict \in {"whole", "end"}
             /\ GoodRequest(s, body)
             /\ request_start' = [request_start EXCEPT ![s] = FALSE]
             /\ data_' = [data_ EXCEPT ![s] = Buffer(s)]
          \/ /\ verdict \in {"line", "header"}
             /\ KeepReading(s, body)
             /\ request_start' = [request_start EXCEPT ![s] = TRUE]
             /\ data_' = [data_ EXCEPT ![s] = <<>>]
          \/ /\ verdict \in {"bad method", "bad header", "garbage"}
             /\ BadRequest(s, body)
             /\ request_start' = [request_start EXCEPT ![s] = FALSE]
             /\ data_' = [data_ EXCEPT ![s] = Buffer(s)]
          \/ /\ verdict = "blank"
             /\ KeepReading(s, http_body[s])
             /\ data_' = [data_ EXCEPT ![s] = Buffer(s)]
             /\ UNCHANGED request_start
    /\ UNCHANGED <<up, clientIp, acceptor, life, conn, asked>>

\* delete this, in handle_read and in handle_write
Delete(s) ==
    /\ life' = [life EXCEPT ![s] = "deleted"]
    /\ clientIp' = NoSession

\* handle_read with an error: end of file or reset
HandleReadError(s) ==
    /\ InLoop /\ reads[s] > 0 /\ conn[s] = "gone"
    /\ reads' = ReadDone(s)
    /\ Delete(s)
    /\ UNCHANGED <<up, shared, acceptor, threads, writes, workers, objects, client, answers>>

-----------------------------------------------------------------------------
(* Answering                                                               *)

\* send_response: clear the buffer, start the write.
SendResponse(s, answer) ==
    /\ data_' = [data_ EXCEPT ![s] = <<>>]
    /\ writes' = [writes EXCEPT ![s] = @ + 1]
    /\ sent' = [sent EXCEPT ![s] = Append(@, answer)]

\* handler_task.  Without a match the handler for "/" serves, and asking the
\* map for it by operator[] leaves an empty entry where there was none.
HandlerTask ==
    /\ up = "running" /\ task # NoTask
    /\ LET h == handlers_tackers[task.key]
       IN  \/ /\ task.found /\ h = "NULL"
              /\ up' = "crashed"
              /\ UNCHANGED <<handlers_tackers, status, task, future>>
           \/ /\ ~(task.found /\ h = "NULL")
              /\ handlers_tackers' =
                    [handlers_tackers EXCEPT ![task.key] = IF h = "ABSENT" THEN "NULL" ELSE h]
              /\ \E reply \in Replies(IF h \in HandlerTypes THEN h ELSE "ErrorHandler") :
                    /\ future' = reply
                    /\ status' = status + Records(reply)
              /\ task' = NoTask
              /\ UNCHANGED up
    /\ UNCHANGED <<req_parser, clientIp, acceptor, io, life, pending, objects, client, answers>>

\* handleRequest throws, out of the thread's function: std::terminate.  A proxy
\* throws at a directive it cannot read (see ProxyCache), the file handler when
\* the path is a directory, whose size it takes for a vector's.
HandlerThrows ==
    /\ up = "running" /\ task # NoTask
    /\ handlers_tackers[task.key] \in {"StaticHandler", "ProxyHandler", "CacheHandler"}
    /\ up' = "exited"
    /\ UNCHANGED <<shared, clientIp, acceptor, threads, life, pending, objects, client, answers>>

\* (Faulty: the answer stays in a promise that the next request uses again.)
GoodRequestEndKeepingFuture(s) ==
    /\ up = "running" /\ io = s /\ future # NoReply
    /\ SendResponse(s, [code |-> future.code, uri |-> request_[s], own |-> OwnUri(http_body[s])])
    /\ logged' = [about |-> s, ip |-> clientIp]
    /\ http_body' = [http_body EXCEPT ![s] = <<>>]
    /\ request_' = [request_ EXCEPT ![s] = <<>>]
    /\ io' = NoSession
    /\ UNCHANGED <<up, shared, clientIp, acceptor, task, future, life, reads, workers,
                   request_start, client>>

\* good_request from f.get() on: dispatch, log, forget the text and the request.
GoodRequestEnd(s) ==
    /\ up = "running" /\ io = s /\ future # NoReply
    /\ SendResponse(s, [code |-> future.code, uri |-> request_[s], own |-> OwnUri(http_body[s])])
    /\ logged' = [about |-> s, ip |-> clientIp]
    /\ http_body' = [http_body EXCEPT ![s] = <<>>]
    /\ request_' = [request_ EXCEPT ![s] = <<>>]
    /\ io' = NoSession
    /\ future' = NoReply
    /\ UNCHANGED <<up, shared, clientIp, acceptor, task, life, reads, workers, request_start,
                   client>>

\* The dispatcher writes a binary body itself, after send_response has queued
\* the headers; write_some throws when the peer has gone.
DispatchThrows(s) ==
    /\ up = "running" /\ io = s /\ future # NoReply
    /\ future.binary /\ conn[s] = "gone"
    /\ up' = "exited"
    /\ data_' = [data_ EXCEPT ![s] = <<>>]
    /\ writes' = [writes EXCEPT ![s] = @ + 1]
    /\ UNCHANGED <<shared, clientIp, acceptor, threads, life, reads, workers, request_start,
                   http_body, request_, client, answers>>

\* EchoHandler::handler in the thread that bad_request started
BadRequestThread(s) ==
    /\ up = "running" /\ workers[s] > 0
    /\ workers' = [workers EXCEPT ![s] = @ - 1]
    /\ SendResponse(s, [code |-> 400, uri |-> <<>>, own |-> <<>>])
    /\ UNCHANGED <<up, shared, clientIp, acceptor, threads, life, reads, request_start,
                   http_body, request_, client, logged>>

\* handle_write without error
HandleWrite(s) ==
    /\ InLoop /\ writes[s] > 0
    /\ writes' = [writes EXCEPT ![s] = @ - 1]
    /\ reads' = [reads EXCEPT ![s] = @ + 1]
    /\ UNCHANGED <<up, shared, clientIp, acceptor, threads, life, workers, objects, client,
                   answers>>

\* handle_write with an error
HandleWriteError(s) ==
    /\ InLoop /\ writes[s] > 0 /\ conn[s] = "gone"
    /\ writes' = [writes EXCEPT ![s] = @ - 1]
    /\ Delete(s)
    /\ UNCHANGED <<up, shared, acceptor, threads, reads, workers, objects, client, answers>>

\* The client closes its end, whatever the server is doing.
Disconnect(s) ==
    /\ up = "running" /\ life[s] = "open" /\ conn[s] = "up"
    /\ conn' = [conn EXCEPT ![s] = "gone"]
    /\ UNCHANGED <<up, shared, clientIp, acceptor, threads, life, pending, objects, inq, asked,
                   answers>>

-----------------------------------------------------------------------------

\* The completion handlers that become due without anything new from outside.
IoThread(s) ==
    \/ HandleRead(s)
    \/ HandleReadError(s)
    \/ GoodRequestEnd(s)
    \/ HandleWrite(s)
    \/ HandleWriteError(s)

Next ==
    \/ \E s \in Sessions :
          \/ HandleAccept(s)
          \/ HandleAcceptError(s)
          \/ HandleAcceptThrows(s)
          \/ IoThread(s)
          \/ DispatchThrows(s)
          \/ BadRequestThread(s)
          \/ Disconnect(s)
    \/ HandlerTask
    \/ HandlerThrows

Spec == Init /\ [][Next]_vars

\* io_service.run() takes completions in the order they became due, so none is
\* passed over for ever; a started thread gets to run.
Fairness ==
    /\ \A s \in Sessions : SF_vars(IoThread(s)) /\ WF_vars(BadRequestThread(s))
    /\ WF_vars(HandlerTask)

FairSpec == Spec /\ Fairness

-----------------------------------------------------------------------------
(* Properties                                                              *)

Answer == [code : Nat, uri : Text, own : Text]

\* Every variable keeps its type through all handlers and threads: counts of
\* pending operations never fall below zero, the key of a task is one of the
\* handler map's.
TypeOK ==
    /\ up \in {"running", "exited", "crashed"}
    /\ req_parser \in Parser
    /\ handlers_tackers \in [Keys -> HandlerTypes \cup {"NULL", "ABSENT"}]
    /\ status \in Nat
    /\ clientIp \in Sessions \cup {NoSession}
    /\ acceptor \in Sessions \cup {NoSession}
    /\ io \in Sessions \cup {NoSession}
    /\ task \in [session : Sessions \cup {NoSession}, found : BOOLEAN, key : Keys]
    /\ future \in [code : Nat, binary : BOOLEAN]
    /\ life \in [Sessions -> {"unborn", "accepting", "open", "deleted"}]
    /\ reads \in [Sessions -> Nat]
    /\ writes \in [Sessions -> Nat]
    /\ workers \in [Sessions -> Nat]
    /\ request_start \in [Sessions -> BOOLEAN]
    /\ http_body \in [Sessions -> Text]
    /\ data_ \in [Sessions -> Text]
    /\ request_ \in [Sessions -> Text]
    /\ inq \in [Sessions -> Seq(Text \ {<<>>})]
    /\ conn \in [Sessions -> {"up", "gone"}]
    /\ asked \in [Sessions -> Scripts \cup {Nothing}]
    /\ sent \in [Sessions -> Seq(Answer)]
    /\ logged \in [about : Sessions \cup {NoSession}, ip : Sessions \cup {NoSession}]

\* The io thread waits in good_request for the answer to session s.
Serving(s) == IF io = s THEN 1 ELSE 0

Activities(s) == reads[s] + writes[s] + workers[s] + Serving(s)

\* Every asynchronous operation and every thread keeps a bare pointer to its
\* session, and handle_read and handle_write end with `delete this'.  An open
\* session has exactly one thing going on, any other has none: no callback or
\* thread finds its session deleted, none is deleted twice, and two operations
\* never share a socket or its buffer.
SessionOwnership ==
    up = "running" =>
        \A s \in Sessions : Activities(s) = IF life[s] = "open" THEN 1 ELSE 0

\* The handler thread and the future it fills belong to the session the io
\* thread waits for, and never both are there: f.get() waits for its own answer.
FutureMatchesWaiter ==
    up = "running" =>
        /\ task # NoTask => task.session = io /\ future = NoReply
        /\ io # NoSession => (task # NoTask <=> future = NoReply)
        /\ io = NoSession => task = NoTask /\ future = NoReply

\* The text gathered for a request is there exactly while the request is being
\* received: nothing of one request is left in front of the next one.
NoLeftover ==
    up = "running" =>
        \A s \in Sessions : io # s =>
            /\ request_start[s] <=> http_body[s] # <<>>
            /\ request_[s] = <<>>

\* The parser shared by all sessions can take its next character.
SharedParserWellFormed == WellFormed(req_parser)

\* Between two characters of different requests the shared parser is as the
\* constructor left it: every text Parse was given in good_request or
\* bad_request was decided by its end, and Reset cleared all it had gathered.
ParserFresh == req_parser = FreshParser

\* An answer is about the URI in its own client's text, although all sessions
\* and all requests of a session go through one parser that keeps its state.
RequestIsolation ==
    \A s \in Sessions : \A i \in 1..Len(sent[s]) : sent[s][i].uri = sent[s][i].own

\* A client that sends nothing but complete requests gets no 400 and no answer
\* it did not ask for.
NoSpuriousAnswer ==
    \A s \in Sessions : Summaries[asked[s]].wellformed =>
        /\ Len(sent[s]) <= Summaries[asked[s]].requests
        /\ \A i \in 1..Len(sent[s]) : sent[s][i].code # 400

\* The k-th answer to such a client is about its k-th request, although good_request
\* takes the URI from a parser that all requests of all clients have gone through.
AnswersInOrder ==
    \A s \in Sessions : Summaries[asked[s]].wellformed =>
        \A k \in 1..Len(sent[s]) :
            /\ k \in DOMAIN Summaries[asked[s]].uris
            /\ sent[s][k].uri = Summaries[asked[s]].uris[k]

\* When all that such a client has sent is read and the session reads on, then
\* every request is answered: none has been taken for a part of the next one.
NothingForgotten ==
    \A s \in Sessions :
        (Summaries[asked[s]].wellformed /\ reads[s] > 0 /\ inq[s] = <<>>)
            => Len(sent[s]) = Summaries[asked[s]].requests

\* The answers that came out of a handler, but for the proxy's own 504, each by
\* its session and its place.
HasRecord(answer) == answer.code \notin {400, 504}

RecordedAnswers ==
    {a \in UNION {{s} \X (1..Len(sent[s])) : s \in Sessions} : HasRecord(sent[a[1]][a[2]])}

\* The record of the answer the io thread has not taken from its future yet
RecordDue == IF future = NoReply THEN 0 ELSE Records(future)

\* Every record of the status page stands for one request that was routed to a
\* handler and answered, and every such answer but the proxy's own 504 has its
\* record.
StatusCountsAnswers ==
    up # "exited" => status = Cardinality(RecordedAnswers) + RecordDue

\* A line in the log about a request names the client that sent the request.
LogNamesTheClient == logged.about = logged.ip

\* No request makes the server call through a null handler pointer.
NoNullHandler == up # "crashed"

\* Every request of a client that sends complete requests and stays is answered.
EveryRequestAnswered ==
    \A s \in Sessions :
        (life[s] = "open" /\ Summaries[asked[s]].wellformed)
            ~> (Len(sent[s]) >= Summaries[asked[s]].requests \/ conn[s] = "gone"
                \/ up # "running")

-----------------------------------------------------------------------------
(* The session implements Connection.                                      *)

PhaseOf(s) ==
    CASE life[s] = "unborn" -> "idle"
      [] life[s] = "accepting" -> "accepting"
      [] life[s] = "deleted" -> "closed"
      [] life[s] = "open" /\ (io = s \/ workers[s] > 0) -> "serving"
      [] life[s] = "open" /\ io # s /\ workers[s] = 0 /\ writes[s] > 0 -> "writing"
      [] OTHER -> "reading"

Conn == INSTANCE Connection WITH
            phase   <- [s \in Sessions |-> PhaseOf(s)],
            answers <- [s \in Sessions |-> Len(sent[s])]

\* Seen from outside a session is a connection of module Connection: reading,
\* answering and writing in turn, one answer per turn, closed for good.
ImplementsConnection == Conn!Spec
=============================================================================
