----------------------------- MODULE MCSession -----------------------------
(***************************************************************************)
(* Small instances of Session: the lexicon, the location blocks and the    *)
(* ways in which clients cut their requests into chunks.                   *)
(***************************************************************************)
EXTENDS Session

MCDigits == [n \in {"1"} |-> 1]

MCSegmentsOf ==
    [u \in {"/", "/a", "/b/c"} |->
        CASE u = "/" -> <<"">> [] u = "/a" -> <<"a">> [] u = "/b/c" -> <<"b", "c">>]

\* conf/deploy.conf in small: a static, an echo, an error and a cache location
DeployConfig ==
    [k \in {<<"a">>, <<"b">>, ROOT, HTTP} |->
        CASE k = <<"a">> -> "StaticHandler" [] k = <<"b">> -> "EchoHandler"
          [] k = ROOT -> "ErrorHandler" [] k = HTTP -> "CacheHandler"]

\* conf/backend.conf in small: no location for "/"
BackendConfig ==
    [k \in {<<"a">>} |-> "StaticHandler"]

-----------------------------------------------------------------------------

Line(m, u)  == <<m, SP, u, SP, VERSION, CRLF>>
Host        == <<"Host:", SP, "x", CRLF>>
Whole(m, u) == Line(m, u) \o Host \o <<CRLF>>
Bare(m, u)  == Line(m, u) \o <<CRLF>>
Post(u)     == Line("POST", u) \o <<CONTENT_LENGTH, SP, "1", CRLF, CRLF, "x">>

\* complete requests: in one chunk, with a body, line by line, one after another
Complete ==
    {<<Whole("GET", "/a")>>,
     <<Post("/b/c")>>,
     <<Whole("GET", "http://h/")>>,
     <<Line("GET", "/a"), Host, <<CRLF>>>>,
     <<Whole("GET", "/b/c"), Whole("GET", "/")>>}

\* They are what the theorems about orderly clients are about.
ASSUME CompleteIsOrderly == Scripts = Complete => OrderlyClients

\* requests the server rejects: a word, an unknown method, a broken header
Rejected ==
    {<<<<CRLF, CRLF>>, <<"x", CRLF>>>>,
     <<Whole("FOO", "/a")>>,
     <<Line("GET", "/a"), <<"x", CRLF>>>>}

\* more than a buffer holds in session_safety
Lines == [i \in 1..12 |-> CRLF]

MixedScripts ==
    Rejected \cup {<<Whole("GET", "/a")>>, <<Bare("GET", "/b/c"), Bare("GET", "/")>>, <<Lines>>}

\* tests/integration_multithread.sh: a request cut within a header, and another
\* client's request
SplitScripts == {<<Line("GET", "/b/c") \o <<"Host:">>, <<"x", CRLF, CRLF>>>>,
                 <<Whole("GET", "/a")>>}

\* a request line, then the headers with the closing CRLF
TwoChunks == {<<Line("GET", "/a"), Host \o <<CRLF>>>>}

\* heap contents that fill data_, that the first chunk covers, or none
MCResidues == {<<>>, [i \in 1..MaxLength |-> JUNK]}
Covered    == {<<JUNK, JUNK>>}
NoResidue  == {<<>>}
MCOverruns == {<<>>, <<JUNK>>}
NoOverrun  == {<<>>}
=============================================================================
