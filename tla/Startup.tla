------------------------------- MODULE Startup -------------------------------
(***************************************************************************)
(* From the config file to a listening server (src/src/main.cc,            *)
(* src/src/port.cc, the constructor and createHandler of src/src/server.cc)*)
(* and the static requests it then serves.                                 *)
(*                                                                         *)
(* The file is read three times: for the port, by the parser for the       *)
(* contents of the blocks, and by setConfigBlocks for their headers.  The  *)
(* contents are then put to the headers by number.                         *)
(***************************************************************************)
EXTENDS StaticFiles

CONSTANTS
    NumberOf,     \* the words that are numbers: their values
    IntMax,       \* the largest int; beyond it std::stoi throws
    Layouts,      \* config files as conf/ has them, by what they declare
    OtherFiles,   \* texts of any other config file
    NoLayout,     \* the file is one of OtherFiles
    Uris          \* paths that clients ask for

ListedTypes  == {"EchoHandler", "StatusHandler", "ErrorHandler", "HealthHandler",
                 "ProxyHandler", "CacheHandler"}
HandlerTypes == ListedTypes \cup {"StaticHandler"}

\* A location: its path, its handler, and the root or the address it is given.
Location == [prefix : DOMAIN SegmentsOf, type : HandlerTypes, arg : Words]
Layout   == [port : {w \in DOMAIN NumberOf : 1 <= NumberOf[w] /\ NumberOf[w] <= 65535},
             locations : Seq(Location)]

ASSUME LayoutsAssumption == Layouts \subseteq Layout /\ NoLayout \notin Layout
ASSUME OthersAssumption  == OtherFiles \subseteq Text
ASSUME KeywordsAssumption ==
    /\ {"port", "location", "root", "proxy_pass"} \cup HandlerTypes \subseteq Words
    /\ "root" \notin DOMAIN FromSlash /\ "location" \notin DOMAIN NumberOf
ASSUME NumbersAssumption ==
    /\ NumberOf \in [DOMAIN NumberOf -> Nat] /\ DOMAIN NumberOf \subseteq Words
    /\ IntMax \in Nat /\ IntMax >= 65535
ASSUME UrisAssumption    == Uris \subseteq Seq(STRING) \ {<<>>}

VARIABLES
    \* the input
    layout,            \* what the file declares, or NoLayout
    tokens,            \* the file's tokens
    \* main
    phase,             \* which loop or call of main is going on, or how it ended
    at,                \* the next token of the pass through the file
    \* class port
    portNum,
    parser,            \* Parse within setConfigBlocks
    last_token,
    until,             \* the token that a skipping loop waits for
    config_blocks,
    \* class server
    listening,         \* the port of the acceptor; 0: none yet
    handlers_tackers,
    locationToRoot,
    \* history
    served             \* the last static request: the file it was mapped to

input  == <<layout, tokens>>
reader == <<at, last_token, until, config_blocks>>
server == <<listening, handlers_tackers, locationToRoot>>
vars   == <<input, phase, portNum, parser, reader, server, served>>

NoRequest == [uri |-> <<>>, path |-> <<>>]

-----------------------------------------------------------------------------
(* A config file as those in conf/: a port, then locations.  A static      *)
(* location has a root and a proxy an address, others are empty.           *)

Quoted(word) == <<DQ, word, DQ>>

Body(location) ==
    CASE location.type = "StaticHandler" ->
             <<SP, "root", SP, DQ, location.arg, DQ, SC, SP, HASH, SP, SC, NL>>
      [] location.type = "ProxyHandler" ->
             <<SP, "proxy_pass", SP, DQ, location.arg, DQ, SC, NL>>
      [] OTHER -> <<>>

Header(location) ==
    <<"location", SP, DQ, location.prefix, DQ, SP, location.type, SP, LB, NL>>

Written(location) == Header(location) \o Body(location) \o <<RB, NL>>

PortLine(config) == <<"port", SP, config.port, SC, SP, HASH, SP, SC, NL>>

FileOf(config) ==
    LET upto[i \in 0..Len(config.locations)] ==
            IF i = 0 THEN PortLine(config)
            ELSE upto[i - 1] \o Written(config.locations[i])
    IN  upto[Len(config.locations)]

-----------------------------------------------------------------------------

Init ==
    /\ \/ /\ layout \in Layouts
          /\ tokens = Tokens(FileOf(layout))
       \/ /\ layout = NoLayout
          /\ \E file \in OtherFiles : tokens = Tokens(file)
    /\ phase = "port"
    /\ at = 1
    /\ portNum = 0
    /\ parser = StartState
    /\ last_token = <<>>
    /\ until = <<>>
    /\ config_blocks = <<>>
    /\ listening = 0
    /\ handlers_tackers = <<>>
    /\ locationToRoot = <<>>
    /\ served = NoRequest

-----------------------------------------------------------------------------
(* checkPortNum: the tokens after "port"; the first of them counts.        *)

PortTokens == {i \in 2..Len(tokens) : tokens[i - 1].value = <<"port">>}

FirstPort == tokens[CHOOSE i \in PortTokens : \A j \in PortTokens : i <= j].value

isNumeric(value) == Len(value) = 1 /\ value[1] \in DOMAIN NumberOf

isValid(n) == n >= 1 /\ n <= 65535

\* (Faulty: the upper end of the range is not looked at.)
CheckPortNumFromBelow ==
    /\ phase = "port"
    /\ IF PortTokens = {} \/ ~isNumeric(FirstPort)
       THEN phase' = "refused" /\ UNCHANGED portNum
       ELSE LET n == NumberOf[FirstPort[1]]
            IN  IF n > IntMax THEN phase' = "exception" /\ UNCHANGED portNum
                ELSE IF n < 1 THEN phase' = "refused" /\ UNCHANGED portNum
                ELSE phase' = "parse" /\ portNum' = n
    /\ UNCHANGED <<input, parser, reader, server, served>>

CheckPortNum ==
    /\ phase = "port"
    /\ IF PortTokens = {} \/ ~isNumeric(FirstPort)
       THEN phase' = "refused" /\ UNCHANGED portNum
       ELSE LET n == NumberOf[FirstPort[1]]
            IN  IF n > IntMax THEN phase' = "exception" /\ UNCHANGED portNum   \* stoi
                ELSE IF ~isValid(n) THEN phase' = "refused" /\ UNCHANGED portNum
                ELSE phase' = "parse" /\ portNum' = n
    /\ UNCHANGED <<input, parser, reader, server, served>>

-----------------------------------------------------------------------------
(* setConfigBlocks                                                         *)

\* A turn of Parse.  What it returns is not looked at.
ParseTurn ==
    /\ phase = "parse"
    /\ parser' = Turn(parser, getToken(tokens, at))
    /\ IF parser'.result = "running"
       THEN at' = at + 1 /\ UNCHANGED phase
       ELSE at' = 1 /\ phase' = "headers"
    /\ UNCHANGED <<input, portNum, last_token, until, config_blocks, server, served>>

Value(i) == getToken(tokens, i).value

Block(prefix, type) == [prefix |-> prefix, handler_type |-> type, content |-> <<>>]

\* (Faulty: a type has been left out of the list.)
IsListedButOne(type) == Len(type) = 1 /\ type[1] \in ListedTypes \ {"ErrorHandler"}

IsListed(type) == Len(type) = 1 /\ type[1] \in ListedTypes

\* A token that does not come after "location"
NextToken ==
    /\ phase = "headers" /\ Value(at) # <<>> /\ last_token # <<"location">>
    /\ last_token' = Value(at)
    /\ at' = at + 1
    /\ UNCHANGED <<input, phase, portNum, parser, until, config_blocks, server, served>>

\* The prefix and the type after "location".  A block of a listed type is
\* skipped up to a closing brace; any other one up to a semicolon.
LocationHeader ==
    /\ phase = "headers" /\ Value(at) # <<>> /\ last_token = <<"location">>
    /\ \/ /\ IsListed(Value(at + 1))
          /\ phase' = "skip" /\ until' = <<RB>> /\ at' = at + 2
          /\ config_blocks' = Append(config_blocks, Block(Value(at), Value(at + 1)))
          /\ UNCHANGED last_token
       \/ /\ ~IsListed(Value(at + 1)) /\ Value(at + 2) = <<LB>>
          /\ phase' = "skip" /\ until' = <<SC>> /\ at' = at + 3
          /\ config_blocks' = Append(config_blocks, Block(Value(at), Value(at + 1)))
          /\ UNCHANGED last_token
       \/ /\ ~IsListed(Value(at + 1)) /\ Value(at + 2) # <<LB>>
          /\ last_token' = Value(at + 2) /\ at' = at + 3
          /\ UNCHANGED <<phase, until, config_blocks>>
    /\ UNCHANGED <<input, portNum, parser, server, served>>

\* while (token != "}") and while (token != ";"): at the end of the file the
\* tokens stay empty, and the loop goes on for ever.
Skip ==
    /\ phase = "skip"
    /\ IF Value(at) = until
       THEN phase' = "headers" /\ last_token' = until /\ at' = at + 1
       ELSE /\ at' = IF at <= Len(tokens) THEN at + 1 ELSE at
            /\ UNCHANGED <<phase, last_token>>
    /\ UNCHANGED <<input, portNum, parser, until, config_blocks, server, served>>

\* (Faulty: a header takes the content of the block before it.)
PairContentsShifted ==
    /\ phase = "headers" /\ Value(at) = <<>>
    /\ config_blocks' = [i \in 1..Len(config_blocks) |->
                            IF i \in 2..(Len(parser.config_blocks_content) + 1)
                            THEN [config_blocks[i] EXCEPT
                                    !.content = parser.config_blocks_content[i - 1]]
                            ELSE config_blocks[i]]
    /\ phase' = "listen"
    /\ UNCHANGED <<input, portNum, parser, at, last_token, until, server, served>>

\* The end of the loop: config_blocks[i].content = blocks[i] for every block
\* the parser has met.  Past the last header this writes outside the vector:
\* nothing is seen of it, or the program crashes.
PairContents ==
    /\ phase = "headers" /\ Value(at) = <<>>
    /\ config_blocks' = [i \in 1..Len(config_blocks) |->
                            IF i <= Len(parser.config_blocks_content)
                            THEN [config_blocks[i] EXCEPT
                                    !.content = parser.config_blocks_content[i]]
                            ELSE config_blocks[i]]
    /\ \/ phase' = "listen"
       \/ Len(parser.config_blocks_content) > Len(config_blocks) /\ phase' = "crashed"
    /\ UNCHANGED <<input, portNum, parser, at, last_token, until, server, served>>

-----------------------------------------------------------------------------
(* The constructor of server                                               *)

\* getPortNum is an int, the constructor's parameter a short, the endpoint's
\* an unsigned short.
ToShort(n)  == IF n % 65536 >= 32768 THEN (n % 65536) - 65536 ELSE n % 65536
ToUShort(n) == n % 65536

\* (Faulty: a port that is negative as a short is given up.)
ListenSigned ==
    /\ phase = "listen"
    /\ listening' = IF ToShort(portNum) < 0 THEN 32768 + ToShort(portNum) ELSE ToShort(portNum)
    /\ phase' = "handlers" /\ at' = 1
    /\ UNCHANGED <<input, portNum, parser, last_token, until, config_blocks, handlers_tackers,
                   locationToRoot, served>>

Listen ==
    /\ phase = "listen"
    /\ listening' = ToUShort(ToShort(portNum))
    /\ phase' = "handlers" /\ at' = 1
    /\ UNCHANGED <<input, portNum, parser, last_token, until, config_blocks, handlers_tackers,
                   locationToRoot, served>>

\* The port is taken, or not ours to take: bind throws, main ends.
BindFails ==
    /\ phase = "listen"
    /\ phase' = "exception"
    /\ UNCHANGED <<input, portNum, parser, reader, server, served>>

\* trim_copy_if: a value without the quotes at its ends
Trimmed(value) ==
    LET inner == {i \in DOMAIN value : value[i] # DQ}
    IN  IF inner = {} THEN <<>>
        ELSE SubSeq(value, CHOOSE i \in inner : \A j \in inner : i <= j,
                           CHOOSE i \in inner : \A j \in inner : i >= j)

\* ProxyHandler::Init: the first proxy_pass with something behind it.
ProxyPass(content) ==
    LET hits == {i \in DOMAIN content : /\ content[i].tokens[1] = <<"proxy_pass">>
                                        /\ Len(content[i].tokens) >= 2}
    IN  IF hits = {} THEN <<>>
        ELSE Trimmed(content[CHOOSE i \in hits : \A j \in hits : i <= j].tokens[2])

Put(map, key, value) ==
    [k \in DOMAIN map \cup {key} |-> IF k = key THEN value ELSE map[k]]

\* handlers_tackers[block.prefix] = createHandler(...) for the next block.  For
\* a type it does not know createHandler has no return: a wild pointer, or a
\* crash.
CreateHandler ==
    /\ phase = "handlers" /\ at <= Len(config_blocks)
    /\ LET block == config_blocks[at]
           type  == IF Len(block.handler_type) = 1 THEN block.handler_type[1] ELSE CUT
           text  == ToString(block.content)
           into(h) == handlers_tackers' = Put(handlers_tackers, block.prefix, h)
       IN  \/ /\ type = "StaticHandler" /\ ~HasNoRoot(text)
              /\ into([type |-> type, addr |-> <<>>])
              /\ locationToRoot' = Put(locationToRoot, LocationKey(block.prefix), Root(text))
              /\ at' = at + 1 /\ UNCHANGED phase
           \/ /\ type = "StaticHandler" /\ HasNoRoot(text)
              /\ phase' = "exception"                               \* substr
              /\ UNCHANGED <<at, handlers_tackers, locationToRoot>>
           \/ /\ type \in ListedTypes
              /\ into([type |-> type,
                       addr |-> IF type = "ProxyHandler" THEN ProxyPass(block.content) ELSE <<>>])
              /\ at' = at + 1 /\ UNCHANGED <<phase, locationToRoot>>
           \/ /\ type \notin HandlerTypes
              /\ \/ into([type |-> "WILD", addr |-> <<>>]) /\ at' = at + 1 /\ UNCHANGED phase
                 \/ phase' = "crashed" /\ UNCHANGED <<at, handlers_tackers>>
              /\ UNCHANGED locationToRoot
    /\ UNCHANGED <<input, portNum, parser, last_token, until, config_blocks, listening, served>>

\* start_accept and io_service.run
Run ==
    /\ phase = "handlers" /\ at > Len(config_blocks)
    /\ phase' = "listening"
    /\ UNCHANGED <<input, portNum, parser, reader, server, served>>

-----------------------------------------------------------------------------
(* Serving: good_request finds the handler by the longest known prefix.    *)

LocationOf(uri) ==
    LET known(n) == \E w \in DOMAIN SegmentsOf :
                       /\ SegmentsOf[w] = SubSeq(uri, 1, n)
                       /\ Quoted(w) \in DOMAIN handlers_tackers
        hits == {n \in 1..Len(uri) : known(n)}
        longest == CHOOSE n \in hits : \A m \in hits : m <= n
    IN  IF hits = {} THEN <<"">> ELSE SubSeq(uri, 1, longest)

IsStatic(location) ==
    \E w \in DOMAIN SegmentsOf :
        /\ SegmentsOf[w] = location /\ Quoted(w) \in DOMAIN handlers_tackers
        /\ handlers_tackers[Quoted(w)].type = "StaticHandler"

\* StaticFileHandler::handleRequest, in the one handler thread there is
StaticRequest(uri) ==
    /\ phase = "listening" /\ IsStatic(LocationOf(uri))
    /\ IF Searches(uri)
       THEN /\ locationToRoot' = AfterSearch(locationToRoot, uri)
            /\ served' = [uri |-> uri, path |-> replace_path(locationToRoot, uri)]
       ELSE UNCHANGED <<locationToRoot, served>>
    /\ \E reply \in handleRequest(locationToRoot, uri) :
          phase' = IF reply = Thrown THEN "exception" ELSE phase
    /\ UNCHANGED <<input, portNum, parser, reader, listening, handlers_tackers>>

Startup ==
    \/ CheckPortNum \/ ParseTurn \/ NextToken \/ LocationHeader \/ Skip \/ PairContents
    \/ Listen \/ BindFails \/ CreateHandler \/ Run

Next == Startup \/ \E uri \in Uris : StaticRequest(uri)

Spec == Init /\ [][Next]_vars

\* main is one thread that nothing makes wait.
FairSpec == Spec /\ WF_vars(Startup)

-----------------------------------------------------------------------------
(* Properties                                                              *)

PortNumbers == {n \in Nat : n <= 65535}

\* Every variable keeps its type, from the file's tokens to the server's maps.
TypeOK ==
    /\ layout \in Layouts \cup {NoLayout}
    /\ phase \in {"port", "parse", "headers", "skip", "listen", "handlers", "listening",
                  "refused", "exception", "crashed"}
    /\ at \in Nat \ {0}
    /\ portNum \in PortNumbers
    /\ listening \in PortNumbers
    /\ parser.result \in {"running", "true", "false"}
    /\ parser.braces \in Nat
    /\ parser.last_token_type \in TokenTypes
    /\ until \in {<<>>, <<RB>>, <<SC>>}
    /\ \A key \in DOMAIN handlers_tackers :
          handlers_tackers[key].type \in HandlerTypes \cup {"WILD"}

\* Parse returns true for valid files and false for all others, whatever the
\* file: comments anywhere, quotes left open, braces in any order.
ParseDecidesValidity ==
    parser.result # "running" => (parser.result = "true" <=> Valid(tokens))

\* The brace stack and the stack of open blocks, which Parse keeps side by side,
\* never differ, and a block is open or recorded for every brace met: neither
\* `too many right braces' nor the last look at the brace stack ever decides.
BracesTrackBlocks ==
    parser.result = "running" =>
        /\ parser.braces = Len(parser.config_stack) - 1
        /\ parser.braces + Len(parser.config_blocks_content)
              = Cardinality(Braces(tokens, "START_BLOCK", at - 1))

\* The server listens on the port that the file's first `port' asks for, though
\* the number passes through a short, and never on one out of range.
PortAsDeclared ==
    phase \in {"handlers", "listening"} =>
        /\ isNumeric(FirstPort)
        /\ listening = NumberOf[FirstPort[1]] /\ isValid(listening)

-----------------------------------------------------------------------------
(* What a layout declares, without tokens and blocks: for each path its    *)
(* last location counts.                                                   *)

LastOf(prefix, type) ==
    LET hits == {i \in DOMAIN layout.locations :
                    layout.locations[i].prefix = prefix /\ layout.locations[i].type \in type}
    IN  layout.locations[CHOOSE i \in hits : \A j \in hits : j <= i]

DeclaredHandler(prefix) ==
    LET l == LastOf(prefix, HandlerTypes)
    IN  [type |-> l.type, addr |-> IF l.type = "ProxyHandler" THEN <<l.arg>> ELSE <<>>]

StaticPrefixes ==
    {layout.locations[i].prefix : i \in {j \in DOMAIN layout.locations :
                                            layout.locations[j].type = "StaticHandler"}}

EndsInSlash(w) == SegmentsOf[w] # <<>> /\ SegmentsOf[w][Len(SegmentsOf[w])] = ""

\* The names that a location asks of a path: "/a/" those of "/a", "/" none.
NamesOf(w) == IF EndsInSlash(w) THEN SubSeq(SegmentsOf[w], 1, Len(SegmentsOf[w]) - 1)
              ELSE SegmentsOf[w]

\* The file under the root of the innermost static location around the URI; a
\* location "/" is around every URI.
DeclaredFile(uri) ==
    LET around == {w \in StaticPrefixes :
                      /\ Len(NamesOf(w)) < Len(uri)
                      /\ NamesOf(w) = SubSeq(uri, 1, Len(NamesOf(w)))}
        inner == CHOOSE w \in around :
                    \A v \in around : Len(NamesOf(v)) <= Len(NamesOf(w))
    IN  IF around = {} THEN <<>>
        ELSE <<FromSlash[LastOf(inner, {"StaticHandler"}).arg]>>
                \o SubSeq(uri, Len(NamesOf(inner)) + 1, Len(uri))

\* No static location ends in a slash, as replace_path can only find those.
NoTrailingSlash ==
    \A config \in Layouts : \A i \in DOMAIN config.locations :
        config.locations[i].type = "StaticHandler" => ~EndsInSlash(config.locations[i].prefix)

\* Of a file like those in conf/, every location gets a handler of its own type
\* with its own address, and nothing undefined happens on the way: headers and
\* contents, gathered in two passes, belong together.
HandlersAsDeclared ==
    layout # NoLayout =>
        /\ phase \notin {"refused", "crashed"}
        /\ phase = "listening" =>
              handlers_tackers =
                  [key \in {Quoted(layout.locations[i].prefix) : i \in DOMAIN layout.locations} |->
                      DeclaredHandler(key[2])]

\* A static request is mapped to the file under the root that the config file
\* gives to the innermost location around it, after any requests before it.  It
\* holds if no static location ends in a slash: the key of "/" is "/", and the
\* last key that replace_path asks for is the empty one.
ServedFromItsRoot ==
    (layout # NoLayout /\ served # NoRequest) => served.path = DeclaredFile(served.uri)

\* The entries that a search adds to locationToRoot change no later search.
SearchesLeaveNoTrace ==
    [][phase = "listening" =>
          \A uri \in Uris : replace_path(locationToRoot', uri) = replace_path(locationToRoot, uri)]_vars

\* Of a file like those in conf/ the server comes to listen, unless it cannot
\* have the port: no loop over the tokens runs past the end of the file.
StartupEnds == (layout # NoLayout) ~> (phase \in {"listening", "exception"})
=============================================================================
